---- MODULE Spec2Model ----
(***************************************************************************)
(* A model of the OxyGent management console (agents, tools, workflows and *)
(* system configuration screens): the in-memory collections, the requests  *)
(* in flight, the rendered lists with their click handlers, the agent form *)
(* and the toast notifications.                                            *)
(*                                                                         *)
(* Every async function of the source is two actions: the call (the code   *)
(* up to its await, which puts a request in flight) and the resumption     *)
(* (the code after the await, run when the request resolves).  The server  *)
(* is nondeterministic: a request may resolve with any response.           *)
(***************************************************************************)
EXTENDS Integers, Sequences, FiniteSets, TLC

\* Loads started by navigation and reset clicks after page initialisation.
MaxLoads == 2

\* The kinds of resource a run exercises: the server answers the requests
\* of these kinds and the administrator works on their sections, while the
\* requests of the other kinds stay in flight.
MaxActive == 2

\* Clicks and submits of the administrator in a run of the agent form.
MaxSessionEvents == 3

\* Clicks of the administrator on the buttons of the rows in a run.
MaxActionEvents == 2

\* Clicks of the administrator in a run of the validations and of the
\* deletes of configuration entries.
MaxConfigEvents == 2

\* Clicks and submits of the administrator in a run of commits across
\* sessions.
MaxCommitEvents == 4

\* Input and change events of the search inputs and type filters in a run.
MaxFilterEvents == 2

\* Calls of apiRequest in a run of apiRequest by itself.
MaxApiCalls == 2

\* JavaScript's undefined, for an optional string field.
Undefined == "<undefined>"

\* JavaScript's null, for editingAgentId.
Null == "<null>"

\* JavaScript truthiness of an optional string.
Truthy(s) == s # Undefined /\ s # Null /\ s # ""

\* An optional field of a JSON object: absent, or present with a value.
None == [some |-> FALSE]
Some(v) == [some |-> TRUE, v |-> v]

\* JavaScript truthiness of an optional string field, of an optional number
\* field and of an optional array field (an array is truthy even when empty).
TruthyString(o) == o.some /\ o.v # ""
TruthyNumber(o) == o.some /\ o.v # 0
TruthyArray(o) == o.some

---------------------------------------------------------------------------
(* The records the server may return.                                      *)

A1 == [id |-> "1", name |-> "time_agent", agent_type |-> "react",
       description |-> "Tells the time", is_master |-> TRUE, status |-> "active"]
A2 == [id |-> "2", name |-> "Planner", agent_type |-> "chat",
       description |-> Undefined, is_master |-> FALSE, status |-> "inactive"]
A1b == [A1 EXCEPT !.name = "time_agent_v2"]

T1 == [id |-> "1", name |-> "time_tools", tool_type |-> "function",
       description |-> "Clock", status |-> "active"]
T2 == [id |-> "2", name |-> "Search", tool_type |-> "api",
       description |-> Undefined, status |-> "inactive"]

W1 == [id |-> "1", name |-> "forecast", description |-> "Weather forecast",
       agents |-> <<"1", "2">>, status |-> "active"]
W2 == [id |-> "2", name |-> "Report", description |-> Undefined,
       agents |-> <<"9">>, status |-> "inactive"]

\* Collections GET /agents, /tools and /workflows may answer with; the last
\* of each repeats an id.
ServerAgents == {<<>>, <<A1>>, <<A2, A1>>, <<A1, A1b>>}
ServerTools == {<<>>, <<T1>>, <<T2, T1>>}
ServerWorkflows == {<<>>, <<W1>>, <<W2, W1>>}

L1 == [name |-> "gpt4", api_key |-> "k1", base_url |-> "https://llm", model_name |-> "gpt-4"]
L2 == [name |-> "claude", api_key |-> "k2", base_url |-> "https://c", model_name |-> "claude-2"]
D1 == [type |-> "redis", connection_string |-> "redis://db"]

\* Configurations GET /system/config may answer with.
ServerConfigs ==
    {[null |-> FALSE, llm_configs |-> <<L1, L2>>, database_configs |-> <<D1>>,
      log_level |-> "DEBUG", cache_dir |-> "/var/cache"],
     [null |-> FALSE, llm_configs |-> <<>>, database_configs |-> <<>>,
      log_level |-> "INFO", cache_dir |-> ""]}

\* Records GET /agents/{id} may answer with: one with every field, one with
\* the optional fields absent, and one whose optional fields are present
\* with falsy values and whose sub-agents are not in the order of the list.
R1 == [name |-> "time_agent", agent_type |-> "react",
       description |-> Some("Tells the time"), is_master |-> TRUE,
       tools |-> Some(<<"1">>), sub_agents |-> Some(<<"2">>),
       llm_model |-> Some("gpt4"), additional_prompt |-> Some("Be brief"),
       timeout |-> Some(30), trust_mode |-> Some(TRUE)]
R2 == [name |-> "Planner", agent_type |-> "chat",
       description |-> None, is_master |-> FALSE,
       tools |-> None, sub_agents |-> None,
       llm_model |-> None, additional_prompt |-> None,
       timeout |-> None, trust_mode |-> None]
R3 == [name |-> "calc", agent_type |-> "local",
       description |-> Some(""), is_master |-> FALSE,
       tools |-> Some(<<>>), sub_agents |-> Some(<<"1", "2">>),
       llm_model |-> Some("claude"), additional_prompt |-> Some(""),
       timeout |-> Some(0), trust_mode |-> Some(FALSE)]
ServerAgentDetails == {R1, R2, R3}

---------------------------------------------------------------------------
(* The fixed data of the source.                                           *)

\* let systemConfig = null
NullConfig == [null |-> TRUE]

MockAgents ==
    << [id |-> "1", name |-> "time_agent", agent_type |-> "react",
        description |-> "An agent that provides time-related information",
        is_master |-> TRUE, status |-> "active"],
       [id |-> "2", name |-> "weather_agent", agent_type |-> "chat",
        description |-> "An agent that provides weather information",
        is_master |-> FALSE, status |-> "active"],
       [id |-> "3", name |-> "calculator_agent", agent_type |-> "local",
        description |-> "An agent that performs calculations",
        is_master |-> FALSE, status |-> "inactive"] >>

MockTools ==
    << [id |-> "1", name |-> "time_tools", tool_type |-> "function",
        description |-> "Tools for time-related operations", status |-> "active"],
       [id |-> "2", name |-> "weather_tools", tool_type |-> "api",
        description |-> "Tools for weather information", status |-> "active"],
       [id |-> "3", name |-> "calculator_tools", tool_type |-> "function",
        description |-> "Tools for mathematical calculations", status |-> "active"],
       [id |-> "4", name |-> "browser_tools", tool_type |-> "mcp",
        description |-> "Tools for browser automation", status |-> "inactive"] >>

MockWorkflows ==
    << [id |-> "1", name |-> "weather_forecast",
        description |-> "A workflow for getting weather forecasts",
        agents |-> <<"1", "2">>, status |-> "active"],
       [id |-> "2", name |-> "time_calculator",
        description |-> "A workflow for time-based calculations",
        agents |-> <<"1", "3">>, status |-> "active"],
       [id |-> "3", name |-> "data_processor",
        description |-> "A workflow for processing data",
        agents |-> <<"2", "3">>, status |-> "inactive"] >>

MockSystemConfig ==
    [null |-> FALSE,
     llm_configs |-> << [name |-> "default_llm", api_key |-> "***",
                         base_url |-> "https://api.example.com",
                         model_name |-> "example-model"] >>,
     database_configs |-> << [type |-> "elasticsearch",
                              connection_string |-> "http://localhost:9200"] >>,
     log_level |-> "INFO", cache_dir |-> "/tmp/oxygent_cache"]

---------------------------------------------------------------------------
(* The transport: what a request in flight may resolve with.               *)

\* A body that response.json() cannot parse, and one it parses to v.
Unparsable == [parsed |-> FALSE]
Json(v) == [parsed |-> TRUE, value |-> v]

\* A body that response.json() parses to null.
NullBody == [parsed |-> TRUE, null |-> TRUE]

\* fetch rejects (no connection), or a response arrives with a status that
\* is ok (2xx) or not and a body.
NetworkError == [kind |-> "network"]
Http(ok, body) == [kind |-> "http", ok |-> ok, body |-> body]

\* Bodies of a non-success response: unparsable, or an object whose detail
\* field is a message, is empty or is absent.
ErrorBodies ==
    {Unparsable, Json([detail |-> "Not found"]), Json([detail |-> ""]),
     Json([detail |-> Undefined])}

Failures == {NetworkError} \cup {Http(FALSE, b) : b \in ErrorBodies}

\* The failures a load is resolved with: one of each way apiRequest throws.
SomeFailures == {NetworkError, Http(FALSE, Json([detail |-> "Not found"]))}

\* Every response to a request whose success body is one of `values`.
Responses(values) ==
    Failures \cup {Http(TRUE, Unparsable)} \cup {Http(TRUE, Json(v)) : v \in values}
LoadResponses(values) ==
    SomeFailures \cup {Http(TRUE, NullBody)} \cup {Http(TRUE, Json(v)) : v \in values}

---------------------------------------------------------------------------
(* apiRequest and showToast.                                               *)

Thrown(m) == [threw |-> TRUE, message |-> m]
Returned(v) == [threw |-> FALSE, value |-> v]
ReturnedNull == [threw |-> FALSE, null |-> TRUE]

\* The message of the error fetch rejects with, and of the SyntaxError
\* response.json() rejects with.
FetchErrorMessage == "Failed to fetch"
SyntaxErrorMessage == "Unexpected token in JSON"

\* An apiRequest that reads the body of every success response.
apiRequestParsesDelete(method, resp) ==
    IF resp.kind = "network" THEN Thrown(FetchErrorMessage)
    ELSE IF ~resp.ok
         THEN IF ~resp.body.parsed THEN Thrown(SyntaxErrorMessage)
              ELSE Thrown(IF Truthy(resp.body.value.detail)
                          THEN resp.body.value.detail
                          ELSE "API request failed")
    ELSE IF ~resp.body.parsed THEN Thrown(SyntaxErrorMessage)
    ELSE IF resp.body = NullBody THEN ReturnedNull
    ELSE Returned(resp.body.value)

\* What apiRequest does once its fetch has resolved with `resp`: the value it
\* returns or the error it throws.
apiRequest(method, resp) ==
    IF resp.kind = "network" THEN Thrown(FetchErrorMessage)
    ELSE IF ~resp.ok
         THEN IF ~resp.body.parsed THEN Thrown(SyntaxErrorMessage)
              ELSE Thrown(IF Truthy(resp.body.value.detail)
                          THEN resp.body.value.detail
                          ELSE "API request failed")
    ELSE IF method = "DELETE" THEN Returned([success |-> TRUE])
    ELSE IF ~resp.body.parsed THEN Thrown(SyntaxErrorMessage)
    ELSE IF resp.body = NullBody THEN ReturnedNull
    ELSE Returned(resp.body.value)

\* One call of showToast(message, type).
Toast(message, type) == [message |-> message, type |-> type]

\* The showToast call of apiRequest's catch block.
apiRequestToasts(result) ==
    IF result.threw THEN <<Toast(result.message, "error")>> ELSE <<>>

---------------------------------------------------------------------------
(* The page: the lists and the click handlers of their buttons.            *)

AgentHandlers == [edit |-> "editAgent", test |-> "testAgent", delete |-> "deleteAgent"]
ToolHandlers == [edit |-> "editTool", test |-> "testTool", delete |-> "deleteTool"]
WorkflowHandlers ==
    [edit |-> "editWorkflow", run |-> "runWorkflow",
     validate |-> "validateWorkflow", delete |-> "deleteWorkflow"]
LlmHandlers == [editLlm |-> "editLlm", deleteLlm |-> "deleteLlm"]
DbHandlers == [editDb |-> "editDatabase", deleteDb |-> "deleteDatabase"]

\* Every function a render attaches as a click listener.
HandlerNames ==
    {AgentHandlers[c] : c \in DOMAIN AgentHandlers}
    \cup {ToolHandlers[c] : c \in DOMAIN ToolHandlers}
    \cup {WorkflowHandlers[c] : c \in DOMAIN WorkflowHandlers}
    \cup {LlmHandlers[c] : c \in DOMAIN LlmHandlers}
    \cup {DbHandlers[c] : c \in DOMAIN DbHandlers}

\* The click listeners of a button: how many times each function has been
\* added (the order in which they were added is not kept).
NoListeners == [h \in HandlerNames |-> 0]
addEventListener(listeners, h) == [listeners EXCEPT ![h] = @ + 1]

\* A row with one button per class of `handlers`, no listener attached yet:
\* `key` is the data-id (or data-index) of its buttons, `rec` the record
\* its cells show and `extra` a cell computed from other state.
Row(key, rec, extra, handlers) ==
    [tag |-> "row", text |-> "", key |-> key, rec |-> rec, extra |-> extra,
     buttons |-> [c \in DOMAIN handlers |-> NoListeners]]

\* The single cell shown for an empty list.
Placeholder(text) ==
    [tag |-> "placeholder", text |-> text, key |-> "", rec |-> [id |-> ""],
     extra |-> "", buttons |-> <<>>]

\* document.querySelectorAll('.action-btn.<class>').forEach(addEventListener):
\* every button of the document with a class of `handlers` gets the listener,
\* in whichever list it is.
AttachList(list, handlers) ==
    [i \in 1..Len(list) |->
        [list[i] EXCEPT !.buttons =
            [c \in DOMAIN list[i].buttons |->
                IF c \in DOMAIN handlers
                THEN addEventListener(list[i].buttons[c], handlers[c])
                ELSE list[i].buttons[c]]]]

Attach(d, handlers) == [l \in DOMAIN d |-> AttachList(d[l], handlers)]

\* A render that shows no placeholder for an empty list.
RenderListNoPlaceholder(d, listId, rows, emptyText, handlers) ==
    Attach([d EXCEPT ![listId] = rows], handlers)

\* The body shared by the render functions: clear the list, show the
\* placeholder and return when there is nothing to show, else append a row
\* per record and attach the listeners.
RenderList(d, listId, rows, emptyText, handlers) ==
    IF Len(rows) = 0
    THEN [d EXCEPT ![listId] = <<Placeholder(emptyText)>>]
    ELSE Attach([d EXCEPT ![listId] = rows], handlers)

RECURSIVE Join(_)
Join(names) ==
    IF Len(names) = 0 THEN ""
    ELSE IF Len(names) = 1 THEN names[1]
    ELSE names[1] \o ", " \o Join(Tail(names))

\* agents.find(a => a.id === id)
FindIndex(list, id) ==
    IF \E i \in 1..Len(list) : list[i].id = id
    THEN CHOOSE i \in 1..Len(list) :
            list[i].id = id /\ \A j \in 1..(i - 1) : list[j].id # id
    ELSE 0

formatAgentsList(agentIds, ags) ==
    IF Len(agentIds) = 0 THEN "-"
    ELSE Join([i \in 1..Len(agentIds) |->
                 IF FindIndex(ags, agentIds[i]) # 0
                 THEN ags[FindIndex(ags, agentIds[i])].name
                 ELSE "Agent " \o agentIds[i]])

AgentRows(list) ==
    [i \in 1..Len(list) |-> Row(list[i].id, list[i], "", AgentHandlers)]
ToolRows(list) ==
    [i \in 1..Len(list) |-> Row(list[i].id, list[i], "", ToolHandlers)]
WorkflowRows(list, ags) ==
    [i \in 1..Len(list) |->
        Row(list[i].id, list[i], formatAgentsList(list[i].agents, ags),
            WorkflowHandlers)]

renderAgents(d, ags) ==
    RenderList(d, "agentList", AgentRows(ags), "No agents found", AgentHandlers)
renderTools(d, tls) ==
    RenderList(d, "toolList", ToolRows(tls), "No tools found", ToolHandlers)
renderWorkflows(d, wfs, ags) ==
    RenderList(d, "workflowList", WorkflowRows(wfs, ags), "No workflows found",
               WorkflowHandlers)

renderLlmConfigs(d, cfg) ==
    RenderList(d, "llmConfigList",
               [i \in 1..Len(cfg.llm_configs) |->
                   Row(i - 1, cfg.llm_configs[i], "", LlmHandlers)],
               "No LLM configurations found", LlmHandlers)
renderDatabaseConfigs(d, cfg) ==
    RenderList(d, "dbConfigList",
               [i \in 1..Len(cfg.database_configs) |->
                   Row(i - 1, cfg.database_configs[i], "", DbHandlers)],
               "No database configurations found", DbHandlers)

\* The log-level and cache-dir fields of the general settings form.
renderGeneralSettings(cfg) ==
    [logLevel |-> IF Truthy(cfg.log_level) THEN cfg.log_level ELSE "INFO",
     cacheDir |-> IF Truthy(cfg.cache_dir) THEN cfg.cache_dir ELSE ""]

renderSystemConfig(d, cfg) == renderDatabaseConfigs(renderLlmConfigs(d, cfg), cfg)

---------------------------------------------------------------------------
(* The state.                                                              *)

VARIABLES
    agents,          \* let agents = []
    tools,           \* let tools = []
    workflows,       \* let workflows = []
    systemConfig,    \* let systemConfig = null
    editingAgentId,  \* let editingAgentId = null
    pending,         \* the requests in flight, in the order they were sent
    dom,             \* the lists of the page: rows, placeholders, listeners
    generalSettings, \* the fields of the general settings form
    inputs,          \* the search inputs and the type filters of the lists
    form,            \* the fields of the agent form
    agentModal,      \* the agent modal: its display style and its title
    toast,           \* the toast element
    timers,          \* the setTimeout callbacks of showToast not yet run
    active,          \* the kinds of resource this run exercises
    events,          \* the clicks and submits the administrator may still make
    last,            \* history: the step just taken, its toasts and alerts
    hist,            \* history: per kind, what its loads returned
    issued,          \* history: the open request the administrator made last
    shown            \* history: how the session on display was opened

stores == <<agents, tools, workflows, systemConfig>>
page == <<dom, generalSettings, inputs>>
session == <<form, editingAgentId, agentModal>>
history == <<hist, issued, shown>>

vars ==
    <<agents, tools, workflows, systemConfig, editingAgentId, pending, dom,
      generalSettings, inputs, form, agentModal, toast, timers, active, events, last,
      hist, issued, shown>>

Kinds == {"agents", "tools", "workflows", "system"}

\* The collection of a kind.
Store(k) ==
    CASE k = "agents" -> agents
      [] k = "tools" -> tools
      [] k = "workflows" -> workflows
      [] k = "system" -> systemConfig

LoadFn(k) ==
    CASE k = "agents" -> "loadAgents"
      [] k = "tools" -> "loadTools"
      [] k = "workflows" -> "loadWorkflows"
      [] k = "system" -> "loadSystemConfig"

\* A request in flight: the async function awaiting it, what apiRequest was
\* called with, and the arguments and locals the function resumes with.
Request(fn, method, path, body, arg) ==
    [fn |-> fn, method |-> method, path |-> path, body |-> body, arg |-> arg]

NoBody == [none |-> TRUE]

Remove(seq, i) == [j \in 1..(Len(seq) - 1) |-> IF j < i THEN seq[j] ELSE seq[j + 1]]

\* The requests of async function `fn` in flight.
InFlight(fn) == {i \in 1..Len(pending) : pending[i].fn = fn}

\* A click or a submit of the administrator.
UserEvent ==
    /\ events > 0
    /\ events' = events - 1

---------------------------------------------------------------------------
(* showToast.                                                              *)

\* showToast(message, type = 'success', duration = 3000): the toast element
\* shows the message, and one more timer is set that will hide the element.
showToastElement(t) == [message |-> t.message, type |-> t.type, display |-> "block"]

\* The showToast calls `toasts` of one step, in order.
ShowToasts(toasts) ==
    /\ toast' = IF Len(toasts) = 0 THEN toast
                ELSE showToastElement(toasts[Len(toasts)])
    /\ timers' = timers + Len(toasts)

\* What function `fn` did in this step: whether its apiRequest threw, and the
\* showToast and alert calls made, in order.
Did(fn, threw, toasts, alerts) ==
    /\ last' = [fn |-> fn, threw |-> threw, toasts |-> toasts, alerts |-> alerts]
    /\ ShowToasts(toasts)

\* The callback of setTimeout: it hides the toast element, whichever
\* notification the element shows by then.
toastTimeout ==
    /\ timers > 0
    /\ toast' = [toast EXCEPT !.display = "none"]
    /\ timers' = timers - 1
    /\ last' = [fn |-> "toastTimeout", threw |-> FALSE, toasts |-> <<>>,
                alerts |-> <<>>]
    /\ UNCHANGED <<stores, page, session, pending, active, events, history>>

---------------------------------------------------------------------------
(* Loading the collections.                                                *)

\* History of the loads of one kind: whether the load started last is still
\* in flight and what it stored, and what the load resolved last returned.
NoLoads(empty) ==
    [newest |-> "none", newestStored |-> empty, outcome |-> "none",
     returned |-> empty, before |-> empty, hadOk |-> FALSE, okValue |-> empty]

LoadStarted(h, k) == [h EXCEPT ![k].newest = "pending"]

\* Request i of kind k resumes: it is the load started last when no load of
\* its kind was sent after it.
LoadResumed(h, k, i, result, stored) ==
    LET isNewest == /\ h[k].newest = "pending"
                    /\ \A j \in InFlight(LoadFn(k)) : j <= i
    IN [h EXCEPT
          ![k].newest = IF isNewest THEN "done" ELSE @,
          ![k].newestStored = IF isNewest THEN stored ELSE @,
          ![k].outcome = IF result.threw THEN "failed" ELSE "ok",
          ![k].returned = IF result.threw THEN @ ELSE result.value,
          ![k].before = Store(k),
          ![k].hadOk = @ \/ ~result.threw,
          ![k].okValue = IF result.threw THEN @ ELSE result.value]

\* The message of the TypeError a render throws when it reads a property of
\* null.
TypeErrorMessage == "Cannot read properties of null"

\* How the try block of a load ends: apiRequest threw, or it returned and
\* the render that follows in the try block threw on a null collection, or
\* both completed.
TryBlock(result) ==
    IF result = ReturnedNull THEN Thrown(TypeErrorMessage) ELSE result

\* A load that shows the mock data whatever the server returned.
LoadedValueAlwaysMock(result, mock) == mock

\* The value a load leaves in its collection: what the server returned, or
\* the mock data when apiRequest threw.
LoadedValue(result, mock) == IF result.threw THEN mock ELSE result.value

\* A call of loadAgents, up to its await: `p` and `h` are the requests in
\* flight and the history before the call.
loadAgents_call(p, h) ==
    /\ pending' = Append(p, Request("loadAgents", "GET", "/agents", NoBody, ""))
    /\ hist' = LoadStarted(h, "agents")

\* loadAgents from its await on: the try block's assignment and render, or
\* the catch block's.
loadAgents_store(i, resp, value) ==
    LET result == TryBlock(apiRequest("GET", resp))
    IN /\ "agents" \in active
       /\ i \in InFlight("loadAgents")
       /\ agents' = value
       /\ dom' = renderAgents(dom, value)
       /\ pending' = Remove(pending, i)
       /\ hist' = LoadResumed(hist, "agents", i, result, value)
       /\ Did("loadAgents", result.threw,
              apiRequestToasts(apiRequest("GET", resp)), <<>>)
       /\ UNCHANGED <<inputs, tools, workflows, systemConfig, generalSettings, session,
                      active, events, issued, shown>>

\* A loadAgents whose catch block assigns no mock data: a failure leaves the
\* list empty.
loadAgents_resumeNoFallback(i, resp) ==
    loadAgents_store(i, resp, IF TryBlock(apiRequest("GET", resp)).threw THEN <<>>
                              ELSE apiRequest("GET", resp).value)

loadAgents_resume(i, resp) ==
    loadAgents_store(i, resp,
                     LoadedValue(TryBlock(apiRequest("GET", resp)), MockAgents))

loadTools_call(p, h) ==
    /\ pending' = Append(p, Request("loadTools", "GET", "/tools", NoBody, ""))
    /\ hist' = LoadStarted(h, "tools")

loadTools_resume(i, resp) ==
    LET result == TryBlock(apiRequest("GET", resp))
        value == LoadedValue(result, MockTools)
    IN /\ "tools" \in active
       /\ i \in InFlight("loadTools")
       /\ tools' = value
       /\ dom' = renderTools(dom, value)
       /\ pending' = Remove(pending, i)
       /\ hist' = LoadResumed(hist, "tools", i, result, value)
       /\ Did("loadTools", result.threw,
              apiRequestToasts(apiRequest("GET", resp)), <<>>)
       /\ UNCHANGED <<inputs, agents, workflows, systemConfig, generalSettings, session,
                      active, events, issued, shown>>

loadWorkflows_call(p, h) ==
    /\ pending' = Append(p, Request("loadWorkflows", "GET", "/workflows", NoBody, ""))
    /\ hist' = LoadStarted(h, "workflows")

loadWorkflows_resume(i, resp) ==
    LET result == TryBlock(apiRequest("GET", resp))
        value == LoadedValue(result, MockWorkflows)
    IN /\ "workflows" \in active
       /\ i \in InFlight("loadWorkflows")
       /\ workflows' = value
       /\ dom' = renderWorkflows(dom, value, agents)
       /\ pending' = Remove(pending, i)
       /\ hist' = LoadResumed(hist, "workflows", i, result, value)
       /\ Did("loadWorkflows", result.threw,
              apiRequestToasts(apiRequest("GET", resp)), <<>>)
       /\ UNCHANGED <<inputs, agents, tools, systemConfig, generalSettings, session,
                      active, events, issued, shown>>

loadSystemConfig_call(p, h) ==
    /\ pending' = Append(p, Request("loadSystemConfig", "GET", "/system/config",
                                    NoBody, ""))
    /\ hist' = LoadStarted(h, "system")

loadSystemConfig_resume(i, resp) ==
    LET result == TryBlock(apiRequest("GET", resp))
        value == LoadedValue(result, MockSystemConfig)
    IN /\ "system" \in active
       /\ i \in InFlight("loadSystemConfig")
       /\ systemConfig' = value
       /\ dom' = renderSystemConfig(dom, value)
       /\ generalSettings' = renderGeneralSettings(value)
       /\ pending' = Remove(pending, i)
       /\ hist' = LoadResumed(hist, "system", i, result, value)
       /\ Did("loadSystemConfig", result.threw,
              apiRequestToasts(apiRequest("GET", resp)), <<>>)
       /\ UNCHANGED <<inputs, agents, tools, workflows, session, active, events,
                      issued, shown>>

---------------------------------------------------------------------------
(* Navigation.                                                             *)

\* The click handler of a navigation item: it refreshes the data of its
\* section.  (The dashboard's counters are fixed text, and the section
\* that is shown is a CSS class no function reads.)
navClick(target) ==
    /\ target \in active
    /\ UserEvent
    /\ CASE target = "agents" -> loadAgents_call(pending, hist)
         [] target = "tools" -> loadTools_call(pending, hist)
         [] target = "workflows" -> loadWorkflows_call(pending, hist)
         [] target = "system" -> loadSystemConfig_call(pending, hist)
    /\ Did("navClick", FALSE, <<>>, <<>>)
    /\ UNCHANGED <<stores, page, session, active, issued, shown>>

\* The click handler of the general settings form's reset button.
resetClick ==
    /\ "system" \in active
    /\ UserEvent
    /\ loadSystemConfig_call(pending, hist)
    /\ Did("resetClick", FALSE, <<>>, <<>>)
    /\ UNCHANGED <<stores, page, session, active, issued, shown>>

---------------------------------------------------------------------------
(* The agent form and its session.                                         *)

\* The options of the agent-type select, from the static page: the types
\* formatAgentType names, after an empty first option.
TypeOptions == <<"", "react", "chat", "workflow", "local", "parallel", "remote", "sse">>

Contains(seq, v) == \E i \in 1..Len(seq) : seq[i] = v

\* select.value = v: the option with that value is selected, and when there
\* is none no option is and the select's value is the empty string.
SelectValue(options, v) == IF Contains(options, v) THEN v ELSE ""

\* The value of a single select whose options have just been replaced or
\* reset: its first option's.
FirstOption(options) == IF Len(options) > 0 THEN options[1] ELSE ""

\* An option of a multiple select, as document.createElement('option') or
\* innerHTML makes it: not selected.
Option(value) == [value |-> value, selected |-> FALSE]

\* option.selected = values.includes(option.value), for every option.
MarkSelected(options, values) ==
    [i \in 1..Len(options) |->
        [options[i] EXCEPT !.selected = Contains(values, options[i].value)]]

Deselected(options) ==
    [i \in 1..Len(options) |-> [options[i] EXCEPT !.selected = FALSE]]

\* Array.from(select.selectedOptions).map(option => option.value): the
\* values of the selected options, in the order of the options.
RECURSIVE SelectedValues(_)
SelectedValues(options) ==
    IF Len(options) = 0 THEN <<>>
    ELSE (IF Head(options).selected THEN <<Head(options).value>> ELSE <<>>)
         \o SelectedValues(Tail(options))

\* The content of the timeout field is a sequence of characters.
Digits == <<"0", "1", "2", "3", "4", "5", "6", "7", "8", "9">>
IsDigit(c) == Contains(Digits, c)
DigitValue(c) == (CHOOSE d \in 1..Len(Digits) : Digits[d] = c) - 1

\* String(n), for the number assigned to the timeout field.
RECURSIVE NumToStr(_)
NumToStr(n) ==
    IF n < 0 THEN <<"-">> \o NumToStr(0 - n)
    ELSE IF n < Len(Digits) THEN <<Digits[n + 1]>>
    ELSE NumToStr(n \div Len(Digits)) \o <<Digits[(n % Len(Digits)) + 1]>>

RECURSIVE SkipSpaces(_)
SkipSpaces(chars) ==
    IF Len(chars) > 0 /\ Head(chars) = " " THEN SkipSpaces(Tail(chars)) ELSE chars

RECURSIVE DigitsValue(_, _)
DigitsValue(chars, acc) ==
    IF Len(chars) = 0 \/ ~IsDigit(Head(chars)) THEN acc
    ELSE DigitsValue(Tail(chars), acc * Len(Digits) + DigitValue(Head(chars)))

\* parseInt(string): leading white space is skipped, a sign is read, then
\* the digits up to the first character that is none; NaN without a digit.
NaN == [some |-> TRUE, nan |-> TRUE]
parseInt(chars) ==
    LET s == SkipSpaces(chars)
        signed == Len(s) > 0 /\ Head(s) \in {"-", "+"}
        body == IF signed THEN Tail(s) ELSE s
    IN IF Len(body) = 0 \/ ~IsDigit(Head(body)) THEN NaN
       ELSE Some((IF signed /\ Head(s) = "-" THEN -1 ELSE 1) * DigitsValue(body, 0))

\* The form in the static page: every field blank, the selects that are
\* filled by script without options.
InitialForm ==
    [name |-> "", type |-> "", description |-> "", isMaster |-> FALSE,
     tools |-> <<>>, subAgents |-> <<>>, llmOptions |-> <<>>, llmModel |-> "",
     additionalPrompt |-> "", timeout |-> <<>>, trustMode |-> FALSE]

\* form.reset(): every field returns to its value in the static page; the
\* options added by script stay, none selected in a multiple select and the
\* first selected in a single one.
ResetForm(f) ==
    [InitialForm EXCEPT
        !.tools = Deselected(f.tools),
        !.subAgents = Deselected(f.subAgents),
        !.llmOptions = f.llmOptions,
        !.llmModel = FirstOption(f.llmOptions)]

\* loadAgentsForSubAgents: it has no await, so it runs to its end when called.
loadAgentsForSubAgents(f, ags) ==
    [f EXCEPT !.subAgents = [i \in 1..Len(ags) |-> Option(ags[i].id)]]

NoRecord == [none |-> TRUE]

\* openAgentModal, the click handler of the create button.
openAgentModal ==
    /\ UserEvent
    /\ form' = loadAgentsForSubAgents(ResetForm(form), agents)
    /\ agentModal' = [display |-> "block", title |-> "Create Agent"]
    /\ editingAgentId' = Null
    /\ pending' = pending \o
            << Request("loadToolsForAgent", "GET", "/tools", NoBody, ""),
               Request("loadLlmModels", "GET", "/system/config", NoBody, "") >>
    /\ issued' = [how |-> "create", id |-> Null, state |-> "ok"]
    /\ shown' = [how |-> "create", id |-> Null, record |-> NoRecord, edited |-> FALSE]
    /\ Did("openAgentModal", FALSE, <<>>, <<>>)
    /\ UNCHANGED <<stores, page, active, hist>>

\* loadToolsForAgent from its await on.
loadToolsForAgent_resume(i, resp) ==
    LET result == apiRequest("GET", resp)
    IN /\ i \in InFlight("loadToolsForAgent")
       /\ form' = [form EXCEPT !.tools =
                      IF result.threw
                      THEN <<Option("1"), Option("2"), Option("3")>>
                      ELSE [j \in 1..Len(result.value) |-> Option(result.value[j].id)]]
       /\ pending' = Remove(pending, i)
       /\ Did("loadToolsForAgent", result.threw, apiRequestToasts(result), <<>>)
       /\ UNCHANGED <<stores, page, editingAgentId, agentModal, active, events,
                      history>>

\* A loadLlmModels that assigns what it fetched to the configuration held
\* by the page.
loadLlmModels_resumeAssigns(i, resp) ==
    LET result == apiRequest("GET", resp)
        options == IF result.threw
                   THEN <<"default_llm", "gpt4", "claude">>
                   ELSE [j \in 1..Len(result.value.llm_configs) |->
                            result.value.llm_configs[j].name]
    IN /\ i \in InFlight("loadLlmModels")
       /\ systemConfig' = IF result.threw THEN systemConfig ELSE result.value
       /\ form' = [form EXCEPT !.llmOptions = options,
                               !.llmModel = FirstOption(options)]
       /\ pending' = Remove(pending, i)
       /\ Did("loadLlmModels", result.threw, apiRequestToasts(result), <<>>)
       /\ UNCHANGED <<agents, tools, workflows, page, editingAgentId, agentModal,
                      active, events, history>>

\* loadLlmModels from its await on.
loadLlmModels_resume(i, resp) ==
    LET result == apiRequest("GET", resp)
        options == IF result.threw
                   THEN <<"default_llm", "gpt4", "claude">>
                   ELSE [j \in 1..Len(result.value.llm_configs) |->
                            result.value.llm_configs[j].name]
    IN /\ i \in InFlight("loadLlmModels")
       /\ form' = [form EXCEPT !.llmOptions = options,
                               !.llmModel = FirstOption(options)]
       /\ pending' = Remove(pending, i)
       /\ Did("loadLlmModels", result.threw, apiRequestToasts(result), <<>>)
       /\ UNCHANGED <<stores, page, editingAgentId, agentModal, active, events,
                      history>>

\* Whether a button with data-id `id` has `handler` among its listeners.
HasListener(handler, id) ==
    \E l \in {"agentList", "toolList", "workflowList"} :
        \E i \in 1..Len(dom[l]) :
            /\ dom[l][i].tag = "row"
            /\ dom[l][i].key = id
            /\ \E c \in DOMAIN dom[l][i].buttons : dom[l][i].buttons[c][handler] > 0

\* The ids a button of the page carries.
RowIds ==
    {dom[l][i].key : l \in {"agentList"}, i \in 1..Len(dom["agentList"])}
    \cup {dom[l][i].key : l \in {"toolList"}, i \in 1..Len(dom["toolList"])}
    \cup {dom[l][i].key : l \in {"workflowList"}, i \in 1..Len(dom["workflowList"])}

\* editAgent up to its await: a click on a button that has the listener.
editAgent_call(agentId) ==
    /\ HasListener("editAgent", agentId)
    /\ UserEvent
    /\ pending' = Append(pending, Request("editAgent", "GET", "/agents/" \o agentId,
                                          NoBody, agentId))
    /\ issued' = [how |-> "edit", id |-> agentId, state |-> "pending"]
    /\ Did("editAgent_call", FALSE, <<>>, <<>>)
    /\ UNCHANGED <<stores, page, session, active, hist, shown>>

\* The assignments of editAgent to the fields of the form.
Populate(f, agent) ==
    [f EXCEPT
        !.name = agent.name,
        !.type = SelectValue(TypeOptions, agent.agent_type),
        !.description = IF TruthyString(agent.description)
                        THEN agent.description.v ELSE "",
        !.isMaster = agent.is_master,
        !.tools = IF TruthyArray(agent.tools)
                  THEN MarkSelected(@, agent.tools.v) ELSE @,
        !.subAgents = IF TruthyArray(agent.sub_agents)
                      THEN MarkSelected(@, agent.sub_agents.v) ELSE @,
        !.llmModel = IF TruthyString(agent.llm_model)
                     THEN SelectValue(f.llmOptions, agent.llm_model.v) ELSE @,
        !.additionalPrompt = IF TruthyString(agent.additional_prompt)
                             THEN agent.additional_prompt.v ELSE @,
        !.timeout = IF TruthyNumber(agent.timeout)
                    THEN NumToStr(agent.timeout.v) ELSE @,
        !.trustMode = IF agent.trust_mode.some THEN agent.trust_mode.v ELSE @]

\* An editAgent that shows the modal after a failed fetch too.
editAgent_resumeOpensOnFailure(i, resp) ==
    LET result == apiRequest("GET", resp)
        agentId == pending[i].arg
        isNewest == /\ issued.how = "edit" /\ issued.state = "pending"
                    /\ \A j \in InFlight("editAgent") : j <= i
    IN /\ i \in InFlight("editAgent")
       /\ IF result.threw
          THEN /\ agentModal' = [display |-> "block", title |-> "Edit Agent"]
               /\ UNCHANGED <<form, editingAgentId, shown>>
               /\ Did("editAgent", TRUE,
                      apiRequestToasts(result)
                        \o <<Toast("Error loading agent details", "error")>>, <<>>)
          ELSE /\ form' = Populate(form, result.value)
               /\ agentModal' = [display |-> "block", title |-> "Edit Agent"]
               /\ editingAgentId' = agentId
               /\ shown' = [how |-> "edit", id |-> agentId,
                            record |-> result.value, edited |-> FALSE]
               /\ Did("editAgent", FALSE, <<>>, <<>>)
       /\ issued' = IF isNewest
                    THEN [issued EXCEPT !.state = IF result.threw THEN "failed"
                                                  ELSE "ok"]
                    ELSE issued
       /\ pending' = Remove(pending, i)
       /\ UNCHANGED <<stores, page, active, events, hist>>

\* editAgent from its await on: the form is filled and the modal shown, or
\* the catch block reports the failure.
editAgent_resume(i, resp) ==
    LET result == apiRequest("GET", resp)
        agentId == pending[i].arg
        isNewest == /\ issued.how = "edit" /\ issued.state = "pending"
                    /\ \A j \in InFlight("editAgent") : j <= i
    IN /\ i \in InFlight("editAgent")
       /\ IF result.threw
          THEN /\ UNCHANGED <<session, shown>>
               /\ Did("editAgent", TRUE,
                      apiRequestToasts(result)
                        \o <<Toast("Error loading agent details", "error")>>, <<>>)
          ELSE /\ form' = Populate(form, result.value)
               /\ agentModal' = [display |-> "block", title |-> "Edit Agent"]
               /\ editingAgentId' = agentId
               /\ shown' = [how |-> "edit", id |-> agentId,
                            record |-> result.value, edited |-> FALSE]
               /\ Did("editAgent", FALSE, <<>>, <<>>)
       /\ issued' = IF isNewest
                    THEN [issued EXCEPT !.state = IF result.threw THEN "failed"
                                                  ELSE "ok"]
                    ELSE issued
       /\ pending' = Remove(pending, i)
       /\ UNCHANGED <<stores, page, active, events, hist>>

\* The changes the administrator makes to the form: typing into a field,
\* ticking a box, choosing or toggling an option.
UserInputs(f) ==
    {[f EXCEPT !.name = "typed name"],
     [f EXCEPT !.type = "sse"],
     [f EXCEPT !.description = "typed description"],
     [f EXCEPT !.isMaster = ~@],
     [f EXCEPT !.additionalPrompt = "typed prompt"],
     [f EXCEPT !.timeout = <<"4", "5">>],
     [f EXCEPT !.trustMode = ~@]}
    \cup {[f EXCEPT !.tools[j].selected = ~@] : j \in 1..Len(f.tools)}
    \cup {[f EXCEPT !.subAgents[j].selected = ~@] : j \in 1..Len(f.subAgents)}
    \cup {[f EXCEPT !.llmModel = f.llmOptions[j]] : j \in 1..Len(f.llmOptions)}

userInput(f) ==
    /\ agentModal.display = "block"
    /\ f \in UserInputs(form)
    /\ f # form
    /\ UserEvent
    /\ form' = f
    /\ shown' = [shown EXCEPT !.edited = TRUE]
    /\ Did("userInput", FALSE, <<>>, <<>>)
    /\ UNCHANGED <<stores, page, editingAgentId, agentModal, pending, active,
                   hist, issued>>

\* A close handler that also reloads the agents.
closeModalReloads ==
    /\ agentModal.display = "block"
    /\ UserEvent
    /\ agentModal' = [agentModal EXCEPT !.display = "none"]
    /\ loadAgents_call(pending, hist)
    /\ Did("closeModal", FALSE, <<>>, <<>>)
    /\ UNCHANGED <<stores, page, form, editingAgentId, active, issued, shown>>

\* The click handlers of the close button and of the cancel button, and the
\* window's handler of a click outside the modal's content.
closeModal ==
    /\ agentModal.display = "block"
    /\ UserEvent
    /\ agentModal' = [agentModal EXCEPT !.display = "none"]
    /\ Did("closeModal", FALSE, <<>>, <<>>)
    /\ UNCHANGED <<stores, page, form, editingAgentId, pending, active, history>>

\* const agentData = {...}: the payload saveAgent builds from the form.
AgentData(f) ==
    [name |-> f.name,
     agent_type |-> f.type,
     description |-> Some(f.description),
     is_master |-> f.isMaster,
     tools |-> Some(SelectedValues(f.tools)),
     sub_agents |-> Some(SelectedValues(f.subAgents)),
     llm_model |-> Some(f.llmModel),
     additional_prompt |-> Some(f.additionalPrompt),
     timeout |-> IF Len(f.timeout) > 0 THEN parseInt(f.timeout) ELSE None,
     trust_mode |-> Some(f.trustMode)]

\* saveAgent with its two branches exchanged.
saveAgentRequestInverted(f, id, from) ==
    IF Truthy(id)
    THEN Request("saveAgent", "POST", "/agents", AgentData(f), from)
    ELSE Request("saveAgent", "PUT", "/agents/" \o id, AgentData(f), from)

\* The request of saveAgent: if (editingAgentId) PUT, else POST.
saveAgentRequest(f, id, from) ==
    IF Truthy(id)
    THEN Request("saveAgent", "PUT", "/agents/" \o id, AgentData(f), from)
    ELSE Request("saveAgent", "POST", "/agents", AgentData(f), from)

\* saveAgent up to its await: the submit handler of the agent form.
saveAgent_call ==
    /\ agentModal.display = "block"
    /\ UserEvent
    /\ pending' = Append(pending, saveAgentRequest(form, editingAgentId, shown))
    /\ Did("saveAgent_call", FALSE, <<>>, <<>>)
    /\ UNCHANGED <<stores, page, session, active, history>>

\* A saveAgent that leaves the modal displayed after a success.
saveAgent_resumeKeepsOpen(i, resp) ==
    LET result == apiRequest(pending[i].method, resp)
    IN /\ i \in InFlight("saveAgent")
       /\ IF result.threw
          THEN /\ pending' = Remove(pending, i)
               /\ UNCHANGED hist
               /\ Did("saveAgent", TRUE,
                      apiRequestToasts(result)
                        \o <<Toast("Error saving agent", "error")>>, <<>>)
          ELSE /\ loadAgents_call(Remove(pending, i), hist)
               /\ Did("saveAgent", FALSE,
                      <<Toast(IF pending[i].method = "PUT"
                              THEN "Agent updated successfully"
                              ELSE "Agent created successfully", "success")>>, <<>>)
       /\ UNCHANGED <<stores, page, session, active, events, issued, shown>>

\* A saveAgent that hides the modal after a failure too.
saveAgent_resumeClosesOnFailure(i, resp) ==
    LET result == apiRequest(pending[i].method, resp)
    IN /\ i \in InFlight("saveAgent")
       /\ agentModal' = [agentModal EXCEPT !.display = "none"]
       /\ IF result.threw
          THEN /\ pending' = Remove(pending, i)
               /\ UNCHANGED hist
               /\ Did("saveAgent", TRUE,
                      apiRequestToasts(result)
                        \o <<Toast("Error saving agent", "error")>>, <<>>)
          ELSE /\ loadAgents_call(Remove(pending, i), hist)
               /\ Did("saveAgent", FALSE,
                      <<Toast(IF pending[i].method = "PUT"
                              THEN "Agent updated successfully"
                              ELSE "Agent created successfully", "success")>>, <<>>)
       /\ UNCHANGED <<stores, page, form, editingAgentId, active, events,
                      issued, shown>>

\* saveAgent from its await on.
saveAgent_resume(i, resp) ==
    LET result == apiRequest(pending[i].method, resp)
    IN /\ i \in InFlight("saveAgent")
       /\ IF result.threw
          THEN /\ pending' = Remove(pending, i)
               /\ UNCHANGED <<agentModal, hist>>
               /\ Did("saveAgent", TRUE,
                      apiRequestToasts(result)
                        \o <<Toast("Error saving agent", "error")>>, <<>>)
          ELSE /\ agentModal' = [agentModal EXCEPT !.display = "none"]
               /\ loadAgents_call(Remove(pending, i), hist)
               /\ Did("saveAgent", FALSE,
                      <<Toast(IF pending[i].method = "PUT"
                              THEN "Agent updated successfully"
                              ELSE "Agent created successfully", "success")>>, <<>>)
       /\ UNCHANGED <<stores, page, form, editingAgentId, active, events,
                      issued, shown>>

---------------------------------------------------------------------------
(* The page once DOMContentLoaded has run: every section has sent its      *)
(* load, no response has arrived.  A run exercises the kinds `kinds`, with *)
(* `n` clicks and submits.                                                 *)

InitPage(kinds, n) ==
    /\ agents = <<>>
    /\ tools = <<>>
    /\ workflows = <<>>
    /\ systemConfig = NullConfig
    /\ editingAgentId = Null
    /\ pending = << Request("loadAgents", "GET", "/agents", NoBody, ""),
                    Request("loadTools", "GET", "/tools", NoBody, ""),
                    Request("loadWorkflows", "GET", "/workflows", NoBody, ""),
                    Request("loadSystemConfig", "GET", "/system/config", NoBody, "") >>
    /\ dom = [agentList |-> <<>>, toolList |-> <<>>, workflowList |-> <<>>,
              llmConfigList |-> <<>>, dbConfigList |-> <<>>]
    /\ generalSettings = [logLevel |-> "INFO", cacheDir |-> ""]
    /\ inputs = [agentSearch |-> <<>>, agentTypeFilter |-> "",
                 toolSearch |-> <<>>, toolTypeFilter |-> "",
                 workflowSearch |-> <<>>]
    /\ form = InitialForm
    /\ agentModal = [display |-> "none", title |-> ""]
    /\ toast = [message |-> "", type |-> "", display |-> "none"]
    /\ timers = 0
    /\ active \in kinds
    /\ events = n
    /\ last = [fn |-> "DOMContentLoaded", threw |-> FALSE, toasts |-> <<>>,
               alerts |-> <<>>]
    /\ hist = [k \in Kinds |->
                 [NoLoads(IF k = "system" THEN NullConfig ELSE <<>>)
                    EXCEPT !.newest = "pending"]]
    /\ issued = [how |-> "none", id |-> Null, state |-> "none"]
    /\ shown = [how |-> "none", id |-> Null, record |-> NoRecord, edited |-> FALSE]

Init == InitPage({S \in SUBSET Kinds : Cardinality(S) = MaxActive}, MaxLoads)

Next ==
    \/ \E target \in Kinds : navClick(target)
    \/ resetClick
    \/ \E i \in 1..Len(pending), resp \in LoadResponses(ServerAgents) :
          loadAgents_resume(i, resp)
    \/ \E i \in 1..Len(pending), resp \in LoadResponses(ServerTools) :
          loadTools_resume(i, resp)
    \/ \E i \in 1..Len(pending), resp \in LoadResponses(ServerWorkflows) :
          loadWorkflows_resume(i, resp)
    \/ \E i \in 1..Len(pending), resp \in LoadResponses(ServerConfigs) :
          loadSystemConfig_resume(i, resp)

\* The loads of the four kinds, from page initialisation on.  No toast timer
\* runs: the run is shorter than the duration of a notification.
Spec == Init /\ [][Next]_vars

\* The responses the requests of a session are resolved with.
SessionResponses(values) ==
    {Http(FALSE, Json([detail |-> "Not found"]))}
    \cup {Http(TRUE, Json(v)) : v \in values}

SessionInit == InitPage({{"agents"}}, MaxSessionEvents)

SessionNext ==
    \/ openAgentModal
    \/ \E id \in RowIds : editAgent_call(id)
    \/ \E f \in UserInputs(form) : userInput(f)
    \/ closeModal
    \/ saveAgent_call
    \/ \E i \in 1..Len(pending), resp \in SessionResponses(ServerAgentDetails) :
          editAgent_resume(i, resp)
    \/ \E i \in 1..Len(pending), resp \in SessionResponses({<<T2, T1>>}) :
          loadToolsForAgent_resume(i, resp)
    \/ \E i \in 1..Len(pending), resp \in SessionResponses(ServerConfigs) :
          loadLlmModels_resume(i, resp)
    \/ \E i \in 1..Len(pending), resp \in SessionResponses({[id |-> "3"]}) :
          saveAgent_resume(i, resp)
    \/ \E i \in 1..Len(pending), resp \in SessionResponses({<<A2, A1>>}) :
          loadAgents_resume(i, resp)

\* The sessions of the agent form: the agents are loaded, the administrator
\* opens the form to create or to edit, changes fields, submits and closes.
SessionSpec == SessionInit /\ [][SessionNext]_vars

---------------------------------------------------------------------------
(* JSON.parse, on a text given as the sequence of its characters.  The     *)
(* grammar covers objects, arrays, strings without escapes, integers and   *)
(* the three literals, with spaces as white space.                         *)

Quote == "\""

ParseFailed == [ok |-> FALSE]
Parsed(value, rest) == [ok |-> TRUE, value |-> value, rest |-> rest]

JsonLiteral(name) == [literal |-> name]
JsonNumber(n) == [number |-> n]
JsonString(chars) == [string |-> chars]
JsonArray(items) == [items |-> items]
JsonObject(members) == [members |-> members]

StartsWith(chars, prefix) ==
    /\ Len(chars) >= Len(prefix)
    /\ SubSeq(chars, 1, Len(prefix)) = prefix

Drop(chars, n) == SubSeq(chars, n + 1, Len(chars))

RECURSIVE LeadingDigits(_)
LeadingDigits(chars) ==
    IF Len(chars) > 0 /\ IsDigit(Head(chars))
    THEN <<Head(chars)>> \o LeadingDigits(Tail(chars))
    ELSE <<>>

\* number: an optional minus, then 0 or a digit from 1 to 9 followed by digits.
ParseNumber(chars) ==
    LET negative == Len(chars) > 0 /\ Head(chars) = "-"
        body == IF negative THEN Tail(chars) ELSE chars
        digits == IF Len(body) > 0 /\ Head(body) = "0" THEN <<"0">>
                  ELSE LeadingDigits(body)
    IN IF Len(digits) = 0 THEN ParseFailed
       ELSE Parsed(JsonNumber((IF negative THEN -1 ELSE 1) * DigitsValue(digits, 0)),
                   Drop(body, Len(digits)))

\* string: the characters after the opening quote, up to the closing one.
RECURSIVE ParseString(_, _)
ParseString(chars, acc) ==
    IF Len(chars) = 0 \/ Head(chars) = "\\" THEN ParseFailed
    ELSE IF Head(chars) = Quote THEN Parsed(JsonString(acc), Tail(chars))
    ELSE ParseString(Tail(chars), Append(acc, Head(chars)))

RECURSIVE ParseValue(_)
RECURSIVE ParseItems(_, _)
RECURSIVE ParseMembers(_, _)

\* The elements of an array from the first character of an element on.
ParseItems(chars, acc) ==
    LET item == ParseValue(chars)
        next == SkipSpaces(item.rest)
    IN IF ~item.ok \/ Len(next) = 0 THEN ParseFailed
       ELSE IF Head(next) = "," THEN ParseItems(Tail(next), Append(acc, item.value))
       ELSE IF Head(next) = "]"
            THEN Parsed(JsonArray(Append(acc, item.value)), Tail(next))
       ELSE ParseFailed

\* The members of an object from the first character of a member on.
ParseMembers(chars, acc) ==
    LET start == SkipSpaces(chars)
        key == IF Len(start) > 0 /\ Head(start) = Quote
               THEN ParseString(Tail(start), <<>>) ELSE ParseFailed
        colon == SkipSpaces(key.rest)
        member == IF Len(colon) > 0 /\ Head(colon) = ":"
                  THEN ParseValue(Tail(colon)) ELSE ParseFailed
        next == SkipSpaces(member.rest)
        members == Append(acc, [key |-> key.value.string, value |-> member.value])
    IN IF ~key.ok THEN ParseFailed
       ELSE IF ~member.ok \/ Len(next) = 0 THEN ParseFailed
       ELSE IF Head(next) = "," THEN ParseMembers(Tail(next), members)
       ELSE IF Head(next) = "}" THEN Parsed(JsonObject(members), Tail(next))
       ELSE ParseFailed

ParseValue(chars) ==
    LET s == SkipSpaces(chars)
        afterOpen == SkipSpaces(Tail(s))
    IN IF Len(s) = 0 THEN ParseFailed
       ELSE IF Head(s) = "{"
            THEN IF Len(afterOpen) > 0 /\ Head(afterOpen) = "}"
                 THEN Parsed(JsonObject(<<>>), Tail(afterOpen))
                 ELSE ParseMembers(afterOpen, <<>>)
       ELSE IF Head(s) = "["
            THEN IF Len(afterOpen) > 0 /\ Head(afterOpen) = "]"
                 THEN Parsed(JsonArray(<<>>), Tail(afterOpen))
                 ELSE ParseItems(afterOpen, <<>>)
       ELSE IF Head(s) = Quote THEN ParseString(Tail(s), <<>>)
       ELSE IF Head(s) = "-" \/ IsDigit(Head(s)) THEN ParseNumber(s)
       ELSE IF StartsWith(s, <<"n", "u", "l", "l">>)
            THEN Parsed(JsonLiteral("null"), Drop(s, 4))
       ELSE IF StartsWith(s, <<"t", "r", "u", "e">>)
            THEN Parsed(JsonLiteral("true"), Drop(s, 4))
       ELSE IF StartsWith(s, <<"f", "a", "l", "s", "e">>)
            THEN Parsed(JsonLiteral("false"), Drop(s, 5))
       ELSE ParseFailed

\* JSON.parse(text): the value of the text, or a SyntaxError when the text is
\* no JSON value or something other than white space follows the value.
JSONparse(chars) ==
    LET r == ParseValue(chars)
    IN IF r.ok /\ Len(SkipSpaces(r.rest)) = 0 THEN Returned(r.value)
       ELSE Thrown(SyntaxErrorMessage)

\* JSON.stringify of a string.
JSONstringify(s) == Quote \o s \o Quote

---------------------------------------------------------------------------
(* prompt and confirm: what the administrator answers.                     *)

\* The texts typed into a prompt.
PromptTexts ==
    { <<>>,
      <<" ">>,
      <<"n", "o", "t", "-", "j", "s", "o", "n">>,
      <<"{", "}">>,
      <<"{", Quote, "q", Quote, ":", " ", "1", "2", "}">>,
      <<"{", Quote, "q", Quote, ":", "}">>,
      <<"[", "1", ",", " ", "t", "r", "u", "e", "]">>,
      <<"0", "1">> }

\* prompt returns null when cancelled, the text otherwise.
PromptAnswers == {None} \cup {Some(t) : t \in PromptTexts}

\* if (runInput): null and the empty text are falsy.
TruthyText(answer) == answer.some /\ Len(answer.v) > 0

InvalidJsonAlert == "Invalid JSON input. Please enter valid JSON."

\* What a handler that asked the administrator did in this step: as Did, with
\* the answer of its prompt or confirm.
DidAsked(fn, threw, toasts, alerts, answer) ==
    /\ last' = [fn |-> fn, threw |-> threw, toasts |-> toasts, alerts |-> alerts,
                answer |-> answer]
    /\ ShowToasts(toasts)

---------------------------------------------------------------------------
(* Deleting.                                                               *)

\* A delete handler up to its await: confirm, then the DELETE request.
Delete_call(fn, path, id, confirmed) ==
    /\ HasListener(fn, id)
    /\ UserEvent
    /\ pending' = IF confirmed
                  THEN Append(pending, Request(fn, "DELETE", path \o id, NoBody, id))
                  ELSE pending
    /\ DidAsked(fn \o "_call", FALSE, <<>>, <<>>, [confirmed |-> confirmed])
    /\ UNCHANGED <<stores, page, session, active, history>>

\* A delete handler whose request was answered with a failure: the catch
\* block.
Delete_failed(fn, i, result, message) ==
    /\ pending' = Remove(pending, i)
    /\ hist' = hist
    /\ Did(fn, TRUE, apiRequestToasts(result) \o <<Toast(message, "error")>>, <<>>)

\* A deleteAgent that sends its request whatever confirm returned.
deleteAgent_callUnconfirmed(agentId, confirmed) ==
    /\ HasListener("deleteAgent", agentId)
    /\ UserEvent
    /\ pending' = Append(pending, Request("deleteAgent", "DELETE",
                                          "/agents/" \o agentId, NoBody, agentId))
    /\ DidAsked("deleteAgent_call", FALSE, <<>>, <<>>, [confirmed |-> confirmed])
    /\ UNCHANGED <<stores, page, session, active, history>>

deleteAgent_call(agentId, confirmed) ==
    Delete_call("deleteAgent", "/agents/", agentId, confirmed)

\* A deleteAgent that reloads the agents after a failure too.
deleteAgent_resumeReloads(i, resp) ==
    LET result == apiRequest("DELETE", resp)
    IN /\ i \in InFlight("deleteAgent")
       /\ loadAgents_call(Remove(pending, i), hist)
       /\ Did("deleteAgent", result.threw,
              IF result.threw
              THEN apiRequestToasts(result) \o <<Toast("Error deleting agent", "error")>>
              ELSE <<Toast("Agent deleted successfully", "success")>>, <<>>)
       /\ UNCHANGED <<stores, page, session, active, events, issued, shown>>

\* A deleteAgent that does not reload the agents after a success.
deleteAgent_resumeNoReload(i, resp) ==
    LET result == apiRequest("DELETE", resp)
    IN /\ i \in InFlight("deleteAgent")
       /\ IF result.threw
          THEN Delete_failed("deleteAgent", i, result, "Error deleting agent")
          ELSE /\ pending' = Remove(pending, i)
               /\ hist' = hist
               /\ Did("deleteAgent", FALSE,
                      <<Toast("Agent deleted successfully", "success")>>, <<>>)
       /\ UNCHANGED <<stores, page, session, active, events, issued, shown>>

\* deleteAgent from its await on.
deleteAgent_resume(i, resp) ==
    LET result == apiRequest("DELETE", resp)
    IN /\ i \in InFlight("deleteAgent")
       /\ IF result.threw
          THEN Delete_failed("deleteAgent", i, result, "Error deleting agent")
          ELSE /\ loadAgents_call(Remove(pending, i), hist)
               /\ Did("deleteAgent", FALSE,
                      <<Toast("Agent deleted successfully", "success")>>, <<>>)
       /\ UNCHANGED <<stores, page, session, active, events, issued, shown>>

deleteTool_call(toolId, confirmed) ==
    Delete_call("deleteTool", "/tools/", toolId, confirmed)

deleteTool_resume(i, resp) ==
    LET result == apiRequest("DELETE", resp)
    IN /\ i \in InFlight("deleteTool")
       /\ IF result.threw
          THEN Delete_failed("deleteTool", i, result, "Error deleting tool")
          ELSE /\ loadTools_call(Remove(pending, i), hist)
               /\ Did("deleteTool", FALSE,
                      <<Toast("Tool deleted successfully", "success")>>, <<>>)
       /\ UNCHANGED <<stores, page, session, active, events, issued, shown>>

deleteWorkflow_call(workflowId, confirmed) ==
    Delete_call("deleteWorkflow", "/workflows/", workflowId, confirmed)

deleteWorkflow_resume(i, resp) ==
    LET result == apiRequest("DELETE", resp)
    IN /\ i \in InFlight("deleteWorkflow")
       /\ IF result.threw
          THEN Delete_failed("deleteWorkflow", i, result, "Error deleting workflow")
          ELSE /\ loadWorkflows_call(Remove(pending, i), hist)
               /\ Did("deleteWorkflow", FALSE,
                      <<Toast("Workflow deleted successfully", "success")>>, <<>>)
       /\ UNCHANGED <<stores, page, session, active, events, issued, shown>>

---------------------------------------------------------------------------
(* Running a workflow and testing a tool.                                  *)

\* runWorkflow and testTool up to their await: the prompt, JSON.parse inside
\* the inner try block, and the request when the text was parsed.
Ask_call(fn, path, id, answer) ==
    LET parsed == JSONparse(answer.v)
        sends == TruthyText(answer) /\ ~parsed.threw
    IN /\ HasListener(fn, id)
       /\ UserEvent
       /\ pending' = IF sends
                     THEN Append(pending, Request(fn, "POST", path,
                                                  [input_data |-> parsed.value], id))
                     ELSE pending
       /\ DidAsked(fn \o "_call", FALSE, <<>>,
                   IF TruthyText(answer) /\ parsed.threw THEN <<InvalidJsonAlert>>
                   ELSE <<>>,
                   answer)
       /\ UNCHANGED <<stores, page, session, active, history>>

\* runWorkflow and testTool from their await on: the result is shown, or the
\* inner catch block runs, for an error of apiRequest and for a result that
\* is null alike.
Ask_resume(fn, i, resp, label) ==
    LET result == apiRequest("POST", resp)
    IN /\ i \in InFlight(fn)
       /\ pending' = Remove(pending, i)
       /\ Did(fn, result.threw, apiRequestToasts(result),
              IF result.threw \/ result = ReturnedNull THEN <<InvalidJsonAlert>>
              ELSE <<label \o JSONstringify(result.value.output)>>)
       /\ UNCHANGED <<stores, page, session, active, events, history>>

\* A runWorkflow that sends the text of the prompt without parsing it.
runWorkflow_callUnparsed(workflowId, answer) ==
    /\ HasListener("runWorkflow", workflowId)
    /\ UserEvent
    /\ pending' = IF TruthyText(answer)
                  THEN Append(pending,
                              Request("runWorkflow", "POST",
                                      "/workflows/" \o workflowId \o "/run",
                                      [input_data |-> JsonString(answer.v)], workflowId))
                  ELSE pending
    /\ DidAsked("runWorkflow_call", FALSE, <<>>, <<>>, answer)
    /\ UNCHANGED <<stores, page, session, active, history>>

runWorkflow_call(workflowId, answer) ==
    Ask_call("runWorkflow", "/workflows/" \o workflowId \o "/run", workflowId, answer)

runWorkflow_resume(i, resp) == Ask_resume("runWorkflow", i, resp, "Run Result: ")

testTool_call(toolId, answer) ==
    Ask_call("testTool", "/tools/" \o toolId \o "/test", toolId, answer)

testTool_resume(i, resp) == Ask_resume("testTool", i, resp, "Test Result: ")

---------------------------------------------------------------------------
(* The row actions: the three lists are loaded, the administrator deletes  *)
(* rows, runs workflows and tests tools.                                   *)

ActionResponses(values) ==
    {Http(FALSE, Json([detail |-> "Not found"])), Http(TRUE, NullBody)}
    \cup {Http(TRUE, Json(v)) : v \in values}

ActionInit == InitPage({{"agents", "tools", "workflows"}}, MaxActionEvents)

ActionNext ==
    \/ \E id \in RowIds, confirmed \in BOOLEAN : deleteAgent_call(id, confirmed)
    \/ \E id \in RowIds, confirmed \in BOOLEAN : deleteTool_call(id, confirmed)
    \/ \E id \in RowIds, confirmed \in BOOLEAN : deleteWorkflow_call(id, confirmed)
    \/ \E id \in RowIds, answer \in PromptAnswers : runWorkflow_call(id, answer)
    \/ \E id \in RowIds, answer \in PromptAnswers : testTool_call(id, answer)
    \/ \E i \in 1..Len(pending), resp \in ActionResponses({}) :
          deleteAgent_resume(i, resp)
    \/ \E i \in 1..Len(pending), resp \in ActionResponses({}) :
          deleteTool_resume(i, resp)
    \/ \E i \in 1..Len(pending), resp \in ActionResponses({}) :
          deleteWorkflow_resume(i, resp)
    \/ \E i \in 1..Len(pending), resp \in ActionResponses({[output |-> "done"]}) :
          runWorkflow_resume(i, resp)
    \/ \E i \in 1..Len(pending), resp \in ActionResponses({[output |-> "done"]}) :
          testTool_resume(i, resp)
    \/ \E i \in 1..Len(pending), resp \in SessionResponses({<<A2, A1>>}) :
          loadAgents_resume(i, resp)
    \/ \E i \in 1..Len(pending), resp \in {Http(TRUE, Json(<<T1>>))} :
          loadTools_resume(i, resp)
    \/ \E i \in 1..Len(pending), resp \in {Http(TRUE, Json(<<W1>>))} :
          loadWorkflows_resume(i, resp)

ActionSpec == ActionInit /\ [][ActionNext]_vars

---------------------------------------------------------------------------
(* Properties of the loads.                                                *)

ListKinds == {"agents", "tools", "workflows"}

MockOf(k) ==
    CASE k = "agents" -> MockAgents
      [] k = "tools" -> MockTools
      [] k = "workflows" -> MockWorkflows
      [] k = "system" -> MockSystemConfig

\* Whether the collection of kind k holds nothing.
IsEmpty(k, value) == IF k = "system" THEN value = NullConfig ELSE Len(value) = 0

\* C1: last-started-wins.  Once every load of a kind has resolved, the
\* collection of that kind is what the load that was started last stored;
\* the result of a load started before it has been discarded.
C1_LastStartedWins ==
    \A k \in Kinds :
        (InFlight(LoadFn(k)) = {} /\ hist[k].newest = "done")
            => Store(k) = hist[k].newestStored

\* C8: while the load of a kind that resolved last is a successful one, the
\* collection of that kind is the list the server returned to it: the same
\* records in the same order.
C8_StoreIsServerCollection ==
    \A k \in ListKinds :
        hist[k].outcome = "ok" => Store(k) = hist[k].returned

\* A successful reload has replaced an earlier collection by a list of two
\* records.
C8_Witness ==
    \E k \in ListKinds :
        /\ hist[k].outcome = "ok"
        /\ Len(hist[k].returned) = 2
        /\ Len(hist[k].before) > 0
        /\ hist[k].before # hist[k].returned

\* C9 as claimed: when a load fails after an earlier load of its kind
\* succeeded, the collection is still what that earlier load returned.
C9_FailureKeepsEarlierCollection ==
    \A k \in Kinds :
        (hist[k].outcome = "failed" /\ hist[k].hadOk)
            => Store(k) = hist[k].okValue

\* C9 as amended: every failed load, the first or a later one, leaves the
\* mock data in the collection of its kind.
C9_FailureStoresMockData ==
    \A k \in Kinds :
        (last.fn = LoadFn(k) /\ last.threw) => Store(k) = MockOf(k)

\* A load has failed after an earlier load of its kind had succeeded.
C9_Witness ==
    \E k \in Kinds :
        /\ last.fn = LoadFn(k) /\ last.threw
        /\ hist[k].hadOk
        /\ hist[k].before = hist[k].okValue

\* C10: a failed load never empties a collection.  If the collection of a
\* kind held data before a load of that kind failed, it holds data after.
C10_FailedLoadNeverEmpties ==
    \A k \in Kinds :
        (hist[k].outcome = "failed" /\ ~IsEmpty(k, hist[k].before))
            => ~IsEmpty(k, Store(k))

\* A load has failed on a collection that held data.
C10_Witness ==
    \E k \in Kinds :
        /\ last.fn = LoadFn(k) /\ last.threw
        /\ hist[k].outcome = "failed"
        /\ ~IsEmpty(k, hist[k].before)

---------------------------------------------------------------------------
(* Properties of the rendered lists.                                       *)

\* The listeners a button has when only the function `h` was added, once.
Only(h) == [x \in HandlerNames |-> IF x = h THEN 1 ELSE 0]

\* Every button of every row of list `listId` has exactly one listener, the
\* one `handlers` names for its class.
OwnHandlersOnly(listId, handlers) ==
    \A i \in 1..Len(dom[listId]) :
        \A c \in DOMAIN dom[listId][i].buttons :
            dom[listId][i].buttons[c] = Only(handlers[c])

\* C2: every action button of an agent, tool or workflow row carries exactly
\* one click handler, the action of the row's own kind.
C2_OneHandlerOfOwnKind ==
    /\ OwnHandlersOnly("agentList", AgentHandlers)
    /\ OwnHandlersOnly("toolList", ToolHandlers)
    /\ OwnHandlersOnly("workflowList", WorkflowHandlers)

---------------------------------------------------------------------------
(* Properties of the agent form's sessions.                                *)

\* C3: the form a session starts with depends only on how the session was
\* opened.  When editAgent has filled the form, the form is what the fetched
\* record makes of a cleared form, and when openAgentModal has run every
\* field is blank and no option is selected.
C3_InitialFormFromOpenAlone ==
    /\ (last.fn = "editAgent" /\ ~last.threw)
          => form = Populate(ResetForm(form), shown.record)
    /\ last.fn = "openAgentModal"
          => /\ form.name = "" /\ form.type = "" /\ form.description = ""
             /\ ~form.isMaster /\ ~form.trustMode
             /\ SelectedValues(form.tools) = <<>>
             /\ SelectedValues(form.subAgents) = <<>>
             /\ form.llmModel = FirstOption(form.llmOptions)
             /\ form.additionalPrompt = "" /\ form.timeout = <<>>

\* C4: the session is the one of the open request issued last.  Once that
\* request has opened its session, the form is in that session, whichever
\* request resolves afterwards.
C4_NewestOpenWins ==
    issued.state = "ok"
        => /\ shown.how = issued.how
           /\ shown.id = issued.id
           /\ editingAgentId = issued.id

\* C5: a commit sends POST /agents when the form is in a session opened by
\* openAgentModal, and PUT /agents/{id} when it is in a session opened by
\* editAgent for id, whatever open requests and fetches came before.
C5_CommitFollowsSession ==
    \A i \in InFlight("saveAgent") :
        /\ pending[i].arg.how # "none"
        /\ pending[i].arg.how = "create"
              => pending[i].method = "POST" /\ pending[i].path = "/agents"
        /\ pending[i].arg.how = "edit"
              => /\ pending[i].method = "PUT"
                 /\ pending[i].path = "/agents/" \o pending[i].arg.id

\* A commit is in flight from an edit session whose fetch resolved after the
\* administrator had asked for a new agent.
C5_Witness ==
    \E i \in InFlight("saveAgent") :
        /\ pending[i].arg.how = "edit"
        /\ pending[i].method = "PUT"
        /\ issued.how = "create"

\* C6: the edit round trip.  A commit from an edit session in which no field
\* was changed carries the fields of the fetched record.
C6_EditRoundTrip ==
    \A i \in InFlight("saveAgent") :
        (pending[i].arg.how = "edit" /\ ~pending[i].arg.edited)
            => pending[i].body = pending[i].arg.record

\* The error notifications among `toasts`.
ErrorToasts(toasts) == {i \in 1..Len(toasts) : toasts[i].type = "error"}

\* C7: an operation whose request failed has shown exactly one error
\* notification.
C7_OneErrorNotification ==
    last.threw => Cardinality(ErrorToasts(last.toasts)) = 1

---------------------------------------------------------------------------
(* Properties of the notifications of the loads.                           *)

\* C11: a load that fell back to the mock data has shown an error
\* notification for its failure.
C11_FallbackIsAnnounced ==
    \A k \in Kinds :
        (last.fn = LoadFn(k) /\ last.threw /\ Store(k) = MockOf(k))
            => ErrorToasts(last.toasts) # {}

\* C12: for each kind at most one load request is in flight.
C12_OneLoadInFlight ==
    \A k \in Kinds : Cardinality(InFlight(LoadFn(k))) <= 1

---------------------------------------------------------------------------
(* Properties of the row actions.                                          *)

DeleteFns == {"deleteAgent", "deleteTool", "deleteWorkflow"}
DeleteCallFns == {"deleteAgent_call", "deleteTool_call", "deleteWorkflow_call"}
AskCallFns == {"runWorkflow_call", "testTool_call"}

\* The load requests and the DELETE requests among the requests `p`.
CountLoads(p) ==
    Cardinality({i \in 1..Len(p) : p[i].fn \in {LoadFn(k) : k \in Kinds}})
CountDeletes(p) == Cardinality({i \in 1..Len(p) : p[i].method = "DELETE"})

\* C13: a delete whose request failed changes no store and issues no reload,
\* neither when the request is sent nor when its failure is handled.
C13_FailedDeleteChangesNothing ==
    [][ /\ last'.fn \in DeleteCallFns => stores' = stores
        /\ (last'.fn \in DeleteFns /\ last'.threw)
              => /\ stores' = stores
                 /\ CountLoads(pending') = CountLoads(pending) ]_vars

\* A delete of an agent has failed while the agents were listed.
C13_Witness ==
    /\ last.fn = "deleteAgent" /\ last.threw
    /\ agents # <<>>

\* C14: a declined confirmation sends nothing, shows nothing and changes no
\* store, and a DELETE request is sent only by a handler whose confirmation
\* was accepted.
C14_DeleteOnlyWhenConfirmed ==
    [][ /\ (last'.fn \in DeleteCallFns /\ ~last'.answer.confirmed)
              => /\ pending' = pending
                 /\ stores' = stores
                 /\ toast' = toast
                 /\ last'.toasts = <<>>
        /\ CountDeletes(pending') > CountDeletes(pending)
              => /\ last'.fn \in DeleteCallFns
                 /\ last'.answer.confirmed ]_vars

\* The administrator has declined the confirmation of deleteAgent.
C14_Witness ==
    /\ last.fn = "deleteAgent_call"
    /\ ~last.answer.confirmed

\* The success notification and the reload of a delete handler.
DeleteSucceeded(fn, k, message) ==
    (last'.fn = fn /\ ~last'.threw)
        => /\ last'.toasts = <<Toast(message, "success")>>
           /\ toast' = showToastElement(Toast(message, "success"))
           /\ CountLoads(pending') = CountLoads(pending) + 1
           /\ pending'[Len(pending')].fn = LoadFn(k)
           /\ hist'[k].newest = "pending"

\* C15: a successful delete shows its success notification and requests a
\* load of its kind, which is then the load of that kind started last.
C15_DeleteNotifiesAndReloads ==
    [][ /\ DeleteSucceeded("deleteAgent", "agents", "Agent deleted successfully")
        /\ DeleteSucceeded("deleteTool", "tools", "Tool deleted successfully")
        /\ DeleteSucceeded("deleteWorkflow", "workflows",
                           "Workflow deleted successfully") ]_vars

\* A delete of an agent has succeeded and its reload is in flight.
C15_Witness ==
    /\ last.fn = "deleteAgent" /\ ~last.threw
    /\ InFlight("loadAgents") # {}

\* C16: when a commit has succeeded the success notification is shown, the
\* modal is hidden and a load of the agents has been requested.
C16_CommitSuccessClosesAndReloads ==
    (last.fn = "saveAgent" /\ ~last.threw)
        => /\ agentModal.display = "none"
           /\ Len(last.toasts) = 1
           /\ last.toasts[1].type = "success"
           /\ toast = showToastElement(last.toasts[1])
           /\ pending[Len(pending)].fn = "loadAgents"
           /\ hist["agents"].newest = "pending"

\* A commit from an edit session has succeeded.
C16_Witness ==
    /\ last.fn = "saveAgent" /\ ~last.threw
    /\ last.toasts = <<Toast("Agent updated successfully", "success")>>

\* C17: a failed commit leaves the modal, the mode, every field of the form
\* and every store as they were, and requests no load.
C17_CommitFailureKeepsSession ==
    [][ (last'.fn = "saveAgent" /\ last'.threw)
            => /\ session' = session
               /\ stores' = stores
               /\ CountLoads(pending') = CountLoads(pending) ]_vars

\* A commit has failed in an open session whose form the administrator had
\* changed.
C17_Witness ==
    /\ last.fn = "saveAgent" /\ last.threw
    /\ agentModal.display = "block"
    /\ shown.edited

\* C18: closing or cancelling hides the modal, sends no request and changes
\* no store.
C18_CloseIsLocal ==
    [][ last'.fn = "closeModal"
            => /\ agentModal'.display = "none"
               /\ pending' = pending
               /\ stores' = stores ]_vars

\* A session with changes that were not committed has been closed.
C18_Witness ==
    /\ last.fn = "closeModal"
    /\ shown.edited
    /\ agentModal.display = "none"

\* C19 as claimed: a text that is not valid JSON sends no request and the
\* invalid-input alert is shown.
C19_InvalidTextIsRejected ==
    [][ (last'.fn \in AskCallFns /\ last'.answer.some
           /\ JSONparse(last'.answer.v).threw)
            => /\ pending' = pending
               /\ last'.alerts = <<InvalidJsonAlert>> ]_vars

\* C19 as amended: a text that is not valid JSON sends no request; the
\* invalid-input alert is shown when the text is not empty, and nothing is
\* shown when it is empty.
C19_InvalidTextSendsNothing ==
    [][ (last'.fn \in AskCallFns /\ last'.answer.some
           /\ JSONparse(last'.answer.v).threw)
            => /\ pending' = pending
               /\ last'.toasts = <<>>
               /\ last'.alerts = IF TruthyText(last'.answer) THEN <<InvalidJsonAlert>>
                                 ELSE <<>> ]_vars

\* The administrator has answered the prompt of runWorkflow with a text that
\* is not empty and not JSON.
C19_Witness ==
    /\ last.fn = "runWorkflow_call"
    /\ TruthyText(last.answer)
    /\ JSONparse(last.answer.v).threw
    /\ last.alerts = <<InvalidJsonAlert>>

\* C20: the invalid-input alert is shown only by a handler whose prompt was
\* answered with a text that is not valid JSON.
C20_InvalidNoticeOnlyForMalformedInput ==
    Contains(last.alerts, InvalidJsonAlert)
        => /\ last.fn \in AskCallFns
           /\ JSONparse(last.answer.v).threw

---------------------------------------------------------------------------
(* Validating a workflow, and deleting an entry of the system              *)
(* configuration.                                                          *)

\* validateWorkflow up to its await: a click on a button that has the listener.
validateWorkflow_call(workflowId) ==
    /\ HasListener("validateWorkflow", workflowId)
    /\ UserEvent
    /\ pending' = Append(pending,
                         Request("validateWorkflow", "POST",
                                 "/workflows/" \o workflowId \o "/validate",
                                 NoBody, workflowId))
    /\ Did("validateWorkflow_call", FALSE, <<>>, <<>>)
    /\ UNCHANGED <<stores, page, session, active, history>>

\* A validateWorkflow that reports the first message only.
validateWorkflow_resumeFirstMessage(i, resp) ==
    LET result == TryBlock(apiRequest("POST", resp))
        toasts ==
            IF result.threw
            THEN apiRequestToasts(apiRequest("POST", resp))
                 \o <<Toast("Error validating workflow", "error")>>
            ELSE IF result.value.is_valid
            THEN <<Toast("Workflow is valid", "success")>>
            ELSE <<Toast("Workflow validation failed: "
                         \o result.value.messages[1], "error")>>
    IN /\ i \in InFlight("validateWorkflow")
       /\ pending' = Remove(pending, i)
       /\ last' = [fn |-> "validateWorkflow", threw |-> result.threw,
                   toasts |-> toasts, alerts |-> <<>>, result |-> result]
       /\ ShowToasts(toasts)
       /\ UNCHANGED <<stores, page, session, active, events, history>>

\* validateWorkflow from its await on: one toast for a valid workflow, one
\* with the joined messages for an invalid one, and the toast of the catch
\* block when apiRequest threw or the result is null.
validateWorkflow_resume(i, resp) ==
    LET result == TryBlock(apiRequest("POST", resp))
        toasts ==
            IF result.threw
            THEN apiRequestToasts(apiRequest("POST", resp))
                 \o <<Toast("Error validating workflow", "error")>>
            ELSE IF result.value.is_valid
            THEN <<Toast("Workflow is valid", "success")>>
            ELSE <<Toast("Workflow validation failed: "
                         \o Join(result.value.messages), "error")>>
    IN /\ i \in InFlight("validateWorkflow")
       /\ pending' = Remove(pending, i)
       /\ last' = [fn |-> "validateWorkflow", threw |-> result.threw,
                   toasts |-> toasts, alerts |-> <<>>, result |-> result]
       /\ ShowToasts(toasts)
       /\ UNCHANGED <<stores, page, session, active, events, history>>

\* The results POST /workflows/{id}/validate may answer with.
ValidationResults ==
    {[is_valid |-> TRUE, messages |-> <<>>],
     [is_valid |-> FALSE, messages |-> <<"missing tool">>],
     [is_valid |-> FALSE, messages |-> <<"unknown agent", "missing tool">>]}

\* array.splice(index, 1), with index counted from 0.
splice(array, index) ==
    IF index + 1 \in 1..Len(array) THEN Remove(array, index + 1) ELSE array

\* A click on the delete button of the row `index` of list `listId`.
HasConfigListener(handler, listId, index) ==
    \E i \in 1..Len(dom[listId]) :
        /\ dom[listId][i].tag = "row"
        /\ dom[listId][i].key = index
        /\ \E c \in DOMAIN dom[listId][i].buttons :
               dom[listId][i].buttons[c][handler] > 0

\* updateSystemConfig up to its await: the PUT carries the configuration as
\* it is when the function is called.
updateSystemConfig_call(p, cfg) ==
    pending' = Append(p, Request("updateSystemConfig", "PUT", "/system/config",
                                 cfg, ""))

\* deleteLlm: confirm, remove the entry from the configuration held by the
\* page, then updateSystemConfig up to its await.
deleteLlm(index, confirmed) ==
    LET cfg == [systemConfig EXCEPT !.llm_configs = splice(@, index)]
    IN /\ HasConfigListener("deleteLlm", "llmConfigList", index)
       /\ UserEvent
       /\ IF confirmed
          THEN systemConfig' = cfg /\ updateSystemConfig_call(pending, cfg)
          ELSE UNCHANGED <<systemConfig, pending>>
       /\ DidAsked("deleteLlm", FALSE, <<>>, <<>>, [confirmed |-> confirmed])
       /\ UNCHANGED <<agents, tools, workflows, page, session, active, history>>

deleteDatabase(index, confirmed) ==
    LET cfg == [systemConfig EXCEPT !.database_configs = splice(@, index)]
    IN /\ HasConfigListener("deleteDatabase", "dbConfigList", index)
       /\ UserEvent
       /\ IF confirmed
          THEN systemConfig' = cfg /\ updateSystemConfig_call(pending, cfg)
          ELSE UNCHANGED <<systemConfig, pending>>
       /\ DidAsked("deleteDatabase", FALSE, <<>>, <<>>, [confirmed |-> confirmed])
       /\ UNCHANGED <<agents, tools, workflows, page, session, active, history>>

\* updateSystemConfig from its await on: a toast and a reload after a
\* success, a toast after a failure.
updateSystemConfig_resume(i, resp) ==
    LET result == apiRequest("PUT", resp)
    IN /\ i \in InFlight("updateSystemConfig")
       /\ IF result.threw
          THEN /\ pending' = Remove(pending, i)
               /\ hist' = hist
               /\ Did("updateSystemConfig", TRUE,
                      apiRequestToasts(result)
                      \o <<Toast("Error updating configuration", "error")>>, <<>>)
          ELSE /\ loadSystemConfig_call(Remove(pending, i), hist)
               /\ Did("updateSystemConfig", FALSE,
                      <<Toast("Configuration updated successfully", "success")>>,
                      <<>>)
       /\ UNCHANGED <<stores, page, session, active, events, issued, shown>>

\* saveGeneralSettings up to its await, the submit handler of the general
\* settings form: it writes the two fields into the configuration held by
\* the page, which throws a TypeError when that is still null, and sends it.
saveGeneralSettings_call ==
    LET cfg == [systemConfig EXCEPT !.log_level = generalSettings.logLevel,
                                    !.cache_dir = generalSettings.cacheDir]
    IN /\ UserEvent
       /\ IF systemConfig = NullConfig
          THEN /\ UNCHANGED <<systemConfig, pending>>
               /\ Did("saveGeneralSettings_call", TRUE, <<>>, <<>>)
          ELSE /\ systemConfig' = cfg
               /\ pending' = Append(pending,
                                    Request("saveGeneralSettings", "PUT",
                                            "/system/config", cfg, ""))
               /\ Did("saveGeneralSettings_call", FALSE, <<>>, <<>>)
       /\ UNCHANGED <<agents, tools, workflows, page, session, active, history>>

\* saveGeneralSettings from its await on.
saveGeneralSettings_resume(i, resp) ==
    LET result == apiRequest("PUT", resp)
    IN /\ i \in InFlight("saveGeneralSettings")
       /\ pending' = Remove(pending, i)
       /\ Did("saveGeneralSettings", result.threw,
              IF result.threw
              THEN apiRequestToasts(result)
                   \o <<Toast("Error saving settings", "error")>>
              ELSE <<Toast("Settings saved successfully", "success")>>, <<>>)
       /\ UNCHANGED <<stores, page, session, active, events, history>>

ConfigInit == InitPage({{"system", "workflows"}}, MaxConfigEvents)

ConfigNext ==
    \/ \E id \in RowIds : validateWorkflow_call(id)
    \/ \E i \in 1..Len(pending), resp \in SessionResponses(ValidationResults) :
          validateWorkflow_resume(i, resp)
    \/ \E index \in 0..1, confirmed \in BOOLEAN : deleteLlm(index, confirmed)
    \/ \E index \in 0..1, confirmed \in BOOLEAN : deleteDatabase(index, confirmed)
    \/ \E i \in 1..Len(pending), resp \in ActionResponses({}) :
          updateSystemConfig_resume(i, resp)
    \/ saveGeneralSettings_call
    \/ \E i \in 1..Len(pending), resp \in ActionResponses({}) :
          saveGeneralSettings_resume(i, resp)
    \/ \E i \in 1..Len(pending), resp \in {Http(TRUE, Json(<<W1>>))} :
          loadWorkflows_resume(i, resp)
    \/ \E i \in 1..Len(pending), resp \in SessionResponses(ServerConfigs) :
          loadSystemConfig_resume(i, resp)

\* The workflows and the system configuration are loaded; the administrator
\* validates workflows, deletes entries of the configuration and saves the
\* general settings.
ConfigSpec == ConfigInit /\ [][ConfigNext]_vars

\* C21: validateWorkflow shows exactly one toast for a result it received: a
\* success toast when is_valid is true, and when it is false an error toast
\* with 'Workflow validation failed: ' and the messages in their order.
C21_ValidationToast ==
    (last.fn = "validateWorkflow" /\ ~last.threw) =>
        /\ Len(last.toasts) = 1
        /\ last.result.value.is_valid => last.toasts[1].type = "success"
        /\ last.result.value = [is_valid |-> FALSE, messages |-> <<"missing tool">>]
              => last.toasts[1] =
                   Toast("Workflow validation failed: missing tool", "error")
        /\ last.result.value =
                [is_valid |-> FALSE, messages |-> <<"unknown agent", "missing tool">>]
              => last.toasts[1] =
                   Toast("Workflow validation failed: unknown agent, missing tool",
                         "error")
        /\ toast = showToastElement(last.toasts[1])

\* A workflow found invalid with two messages, both in the toast shown.
C21_Witness ==
    /\ last.fn = "validateWorkflow"
    /\ ~last.threw
    /\ last.result.value.messages = <<"unknown agent", "missing tool">>
    /\ toast.message = "Workflow validation failed: unknown agent, missing tool"
    /\ toast.display = "block"

\* C30: after the PUT of a delete has failed, the entries of the
\* configuration held by the page are the entries the two lists display,
\* index for index.
C30_FailedDeleteKeepsEntries ==
    LET Displayed(listId) ==
            [i \in {j \in 1..Len(dom[listId]) : dom[listId][j].tag = "row"} |->
                dom[listId][i].rec]
    IN (last.fn = "updateSystemConfig" /\ last.threw) =>
          /\ systemConfig.llm_configs = Displayed("llmConfigList")
          /\ systemConfig.database_configs = Displayed("dbConfigList")

---------------------------------------------------------------------------
(* apiRequest by itself: callers send requests of the four methods and     *)
(* each is resolved with any response.                                     *)

Methods == {"GET", "POST", "PUT", "DELETE"}

\* apiRequest up to its await of fetch.
apiRequest_call(method) ==
    /\ UserEvent
    /\ pending' = Append(pending, Request("apiRequest", method, "/agents/1", NoBody, ""))
    /\ last' = [fn |-> "apiRequest_call", threw |-> FALSE, toasts |-> <<>>,
                alerts |-> <<>>]
    /\ UNCHANGED <<stores, page, session, toast, timers, active, history>>

\* An apiRequest that sends its request again after a failure.
apiRequest_resumeRetries(i, resp) ==
    LET result == apiRequest(pending[i].method, resp)
    IN /\ i \in InFlight("apiRequest")
       /\ pending' = IF result.threw THEN pending ELSE Remove(pending, i)
       /\ last' = [fn |-> "apiRequest", threw |-> result.threw,
                   toasts |-> apiRequestToasts(result), alerts |-> <<>>,
                   method |-> pending[i].method, response |-> resp,
                   result |-> result]
       /\ ShowToasts(apiRequestToasts(result))
       /\ UNCHANGED <<stores, page, session, active, events, history>>

\* apiRequest from its await on: the value it returns or the error its catch
\* block shows and throws again, kept with the response that led to it.
apiRequest_resume(i, resp) ==
    LET result == apiRequest(pending[i].method, resp)
    IN /\ i \in InFlight("apiRequest")
       /\ pending' = Remove(pending, i)
       /\ last' = [fn |-> "apiRequest", threw |-> result.threw,
                   toasts |-> apiRequestToasts(result), alerts |-> <<>>,
                   method |-> pending[i].method, response |-> resp,
                   result |-> result]
       /\ ShowToasts(apiRequestToasts(result))
       /\ UNCHANGED <<stores, page, session, active, events, history>>

ApiInit == InitPage({{}}, MaxApiCalls)

ApiNext ==
    \/ \E method \in Methods : apiRequest_call(method)
    \/ \E i \in 1..Len(pending),
          resp \in Responses({[id |-> "3"]}) \cup {Http(TRUE, NullBody)} :
          apiRequest_resume(i, resp)

ApiSpec == ApiInit /\ [][ApiNext]_vars

\* C26: a response with a non-success status makes apiRequest throw an error
\* whose message is the detail of the body when the body has one, and
\* 'API request failed' when it has none or cannot be parsed.
C26_FailureMessage ==
    (last.fn = "apiRequest" /\ last.response.kind = "http" /\ ~last.response.ok)
        => last.result =
             Thrown(IF last.response.body
                         \in {Json([detail |-> d]) : d \in {"Not found"}}
                    THEN last.response.body.value.detail
                    ELSE "API request failed")

\* C27: a DELETE answered with a success status returns {success: true},
\* whatever the body of the response is.
C27_DeleteSucceeds ==
    (last.fn = "apiRequest" /\ last.method = "DELETE"
        /\ last.response.kind = "http" /\ last.response.ok)
        => last.result = Returned([success |-> TRUE])

\* A DELETE answered with a success status and a body that is not JSON.
C27_Witness ==
    /\ last.fn = "apiRequest"
    /\ last.method = "DELETE"
    /\ last.response = Http(TRUE, Unparsable)
    /\ last.result = Returned([success |-> TRUE])

---------------------------------------------------------------------------
(* Commits across sessions: the administrator opens the form to create or  *)
(* to edit, submits, cancels and opens it again while requests are in      *)
(* flight.  The fields are submitted as the form shows them.               *)

CommitInit == InitPage({{"agents"}}, MaxCommitEvents)

CommitNext ==
    \/ openAgentModal
    \/ \E id \in RowIds : editAgent_call(id)
    \/ closeModal
    \/ saveAgent_call
    \/ \E i \in 1..Len(pending), resp \in {Http(TRUE, Json(R1))} :
          editAgent_resume(i, resp)
    \/ \E i \in 1..Len(pending), resp \in {Http(TRUE, Json(<<T1>>))} :
          loadToolsForAgent_resume(i, resp)
    \/ \E i \in 1..Len(pending), resp \in {Http(TRUE, Json(MockSystemConfig))} :
          loadLlmModels_resume(i, resp)
    \/ \E i \in 1..Len(pending), resp \in SessionResponses({[id |-> "3"]}) :
          saveAgent_resume(i, resp)
    \/ \E i \in 1..Len(pending), resp \in {Http(TRUE, Json(<<A1>>))} :
          loadAgents_resume(i, resp)

CommitSpec == CommitInit /\ [][CommitNext]_vars

---------------------------------------------------------------------------
(* Searching and filtering the lists.                                      *)

\* The characters of the names and descriptions of the records shown.
Characters(s) ==
    CASE s = "time_agent" ->
           <<"t", "i", "m", "e", "_", "a", "g", "e", "n", "t">>
      [] s = "Planner" ->
           <<"P", "l", "a", "n", "n", "e", "r">>
      [] s = "Tells the time" ->
           <<"T", "e", "l", "l", "s", " ", "t", "h", "e", " ", "t", "i", "m", "e">>
      [] s = "time_tools" ->
           <<"t", "i", "m", "e", "_", "t", "o", "o", "l", "s">>
      [] s = "Search" ->
           <<"S", "e", "a", "r", "c", "h">>
      [] s = "Clock" ->
           <<"C", "l", "o", "c", "k">>
      [] s = "forecast" ->
           <<"f", "o", "r", "e", "c", "a", "s", "t">>
      [] s = "Report" ->
           <<"R", "e", "p", "o", "r", "t">>
      [] s = "Weather forecast" ->
           <<"W", "e", "a", "t", "h", "e", "r", " ", "f", "o", "r", "e", "c", "a", "s", "t">>

\* A toLowerCase that leaves every character as it is.
toLowerCaseIdentity(chars) == chars

\* String.prototype.toLowerCase, on the letters A to Z.
toLowerCase(chars) ==
    LET upper == <<"A", "B", "C", "D", "E", "F", "G", "H", "I", "J", "K", "L"
                 , "M", "N", "O", "P", "Q", "R", "S", "T", "U", "V", "W", "X", "Y", "Z">>
        lower == <<"a", "b", "c", "d", "e", "f", "g", "h", "i", "j", "k", "l"
                 , "m", "n", "o", "p", "q", "r", "s", "t", "u", "v", "w", "x", "y", "z">>
        Low(c) == IF \E n \in 1..26 : upper[n] = c
                  THEN lower[CHOOSE n \in 1..26 : upper[n] = c]
                  ELSE c
    IN [i \in 1..Len(chars) |-> Low(chars[i])]

\* String.prototype.includes: `term` is a run of consecutive characters
\* of `chars`.
includes(chars, term) ==
    \E k \in 0..(Len(chars) - Len(term)) : SubSeq(chars, k + 1, k + Len(term)) = term

\* const matchesSearch of the three filters: the name, or the description
\* when it is truthy, includes the search term.
matchesSearch(rec, searchTerm) ==
    \/ includes(toLowerCase(Characters(rec.name)), searchTerm)
    \/ /\ Truthy(rec.description)
       /\ includes(toLowerCase(Characters(rec.description)), searchTerm)

\* The texts the administrator types into a search input.
SearchTexts ==
    {<<>>, <<"T", "I", "M", "E">>, <<"p", "l", "a", "n">>,
     <<"c", "l", "o", "c", "k">>}

\* filterAgents, the handler of the input event of the search input and of
\* the change event of the type filter, with the values the two controls
\* have after the event; it ends with renderFilteredAgents.
filterAgents(search, type) ==
    LET searchTerm == toLowerCase(search)
        typeFilter == type
        filteredAgents ==
            SelectSeq(agents,
                      LAMBDA agent :
                          /\ matchesSearch(agent, searchTerm)
                          /\ (typeFilter = "" \/ agent.agent_type = typeFilter))
    IN /\ (search # inputs.agentSearch) # (type # inputs.agentTypeFilter)
       /\ UserEvent
       /\ inputs' = [inputs EXCEPT !.agentSearch = search, !.agentTypeFilter = type]
       /\ dom' = RenderList(dom, "agentList", AgentRows(filteredAgents),
                            "No agents found", AgentHandlers)
       /\ Did("filterAgents", FALSE, <<>>, <<>>)
       /\ UNCHANGED <<stores, generalSettings, session, pending, active, history>>

\* filterTools, as filterAgents; it ends with renderFilteredTools.
filterTools(search, type) ==
    LET searchTerm == toLowerCase(search)
        typeFilter == type
        filteredTools ==
            SelectSeq(tools,
                      LAMBDA tool :
                          /\ matchesSearch(tool, searchTerm)
                          /\ (typeFilter = "" \/ tool.tool_type = typeFilter))
    IN /\ (search # inputs.toolSearch) # (type # inputs.toolTypeFilter)
       /\ UserEvent
       /\ inputs' = [inputs EXCEPT !.toolSearch = search, !.toolTypeFilter = type]
       /\ dom' = RenderList(dom, "toolList", ToolRows(filteredTools),
                            "No tools found", ToolHandlers)
       /\ Did("filterTools", FALSE, <<>>, <<>>)
       /\ UNCHANGED <<stores, generalSettings, session, pending, active, history>>

\* filterWorkflows, the handler of the input event of the search input; it
\* ends with renderFilteredWorkflows.
filterWorkflows(search) ==
    LET searchTerm == toLowerCase(search)
        filteredWorkflows ==
            SelectSeq(workflows, LAMBDA workflow : matchesSearch(workflow, searchTerm))
    IN /\ search # inputs.workflowSearch
       /\ UserEvent
       /\ inputs' = [inputs EXCEPT !.workflowSearch = search]
       /\ dom' = RenderList(dom, "workflowList",
                            WorkflowRows(filteredWorkflows, agents),
                            "No workflows found", WorkflowHandlers)
       /\ Did("filterWorkflows", FALSE, <<>>, <<>>)
       /\ UNCHANGED <<stores, generalSettings, session, pending, active, history>>

FilterInit == InitPage({{"agents", "tools", "workflows"}}, MaxFilterEvents)

FilterNext ==
    \/ \E search \in SearchTexts, type \in {"", "react", "chat"} :
          filterAgents(search, type)
    \/ \E search \in SearchTexts, type \in {"", "function", "api"} :
          filterTools(search, type)
    \/ \E search \in SearchTexts : filterWorkflows(search)
    \/ \E i \in 1..Len(pending),
          resp \in {Http(TRUE, Json(<<>>)), Http(TRUE, Json(<<A2, A1>>))} :
          loadAgents_resume(i, resp)
    \/ \E i \in 1..Len(pending), resp \in {Http(TRUE, Json(<<T2, T1>>))} :
          loadTools_resume(i, resp)
    \/ \E i \in 1..Len(pending), resp \in {Http(TRUE, Json(<<W2, W1>>))} :
          loadWorkflows_resume(i, resp)

\* The three lists are loaded while the administrator types into the search
\* inputs and chooses type filters.
FilterSpec == FilterInit /\ [][FilterNext]_vars

\* Text `text` contains `sub`, letters compared without regard to case.
ContainsIgnoringCase(text, sub) ==
    LET upper == <<"A", "B", "C", "D", "E", "F", "G", "H", "I", "J", "K", "L"
                 , "M", "N", "O", "P", "Q", "R", "S", "T", "U", "V", "W", "X", "Y", "Z">>
        lower == <<"a", "b", "c", "d", "e", "f", "g", "h", "i", "j", "k", "l"
                 , "m", "n", "o", "p", "q", "r", "s", "t", "u", "v", "w", "x", "y", "z">>
        SameLetter(a, b) ==
            a = b \/ \E n \in 1..26 : {a, b} = {upper[n], lower[n]}
    IN \E k \in 0..(Len(text) - Len(sub)) :
           \A j \in 1..Len(sub) : SameLetter(text[k + j], sub[j])

\* The records of the list of kind k that satisfy the search text and the
\* type filter entered for k, in the order of the list.
Satisfying(k) ==
    LET search == CASE k = "agents" -> inputs.agentSearch
                    [] k = "tools" -> inputs.toolSearch
                    [] k = "workflows" -> inputs.workflowSearch
        HasType(rec) ==
            CASE k = "agents" ->
                    inputs.agentTypeFilter \in {"", rec.agent_type}
              [] k = "tools" -> inputs.toolTypeFilter \in {"", rec.tool_type}
              [] k = "workflows" -> TRUE
        InText(rec) ==
            \/ ContainsIgnoringCase(Characters(rec.name), search)
            \/ /\ rec.description # Undefined
               /\ ContainsIgnoringCase(Characters(rec.description), search)
    IN SelectSeq(Store(k), LAMBDA rec : InText(rec) /\ HasType(rec))

ListOf(k) ==
    CASE k = "agents" -> "agentList"
      [] k = "tools" -> "toolList"
      [] k = "workflows" -> "workflowList"

FilterFn(k) ==
    CASE k = "agents" -> "filterAgents"
      [] k = "tools" -> "filterTools"
      [] k = "workflows" -> "filterWorkflows"

\* The records of the rows the list of kind k displays.
DisplayedRecords(k) ==
    [i \in {j \in 1..Len(dom[ListOf(k)]) : dom[ListOf(k)][j].tag = "row"} |->
        dom[ListOf(k)][i].rec]

\* C22: a filter displays exactly the records of its list, in the order of
\* the list, whose name or description contains the search text without
\* regard to case and whose type is the type filter when one is chosen.
C22_FilteredList ==
    \A k \in ListKinds :
        last.fn = FilterFn(k) => DisplayedRecords(k) = Satisfying(k)

\* A search for 'plan' among two agents displays the agent named Planner.
C22_Witness ==
    /\ last.fn = "filterAgents"
    /\ agents = <<A2, A1>>
    /\ inputs.agentSearch = <<"p", "l", "a", "n">>
    /\ DisplayedRecords("agents") = <<A2>>

\* C23: after every render of a list, by a filter or by a load, the rows are
\* the records that satisfy the search text and the type filter entered.
C23_RenderShowsFilteredSet ==
    \A k \in ListKinds :
        last.fn \in {FilterFn(k), LoadFn(k)} => DisplayedRecords(k) = Satisfying(k)

\* C24: a render given no record leaves exactly one placeholder with the
\* text of its list and no button; a render given records leaves one row per
\* record and no placeholder.
C24_PlaceholderWhenEmpty ==
    \A k \in ListKinds :
        last.fn \in {FilterFn(k), LoadFn(k)} =>
            LET given == IF last.fn = LoadFn(k) THEN Store(k) ELSE Satisfying(k)
                list == dom[ListOf(k)]
                text == CASE k = "agents" -> "No agents found"
                          [] k = "tools" -> "No tools found"
                          [] k = "workflows" -> "No workflows found"
            IN IF Len(given) = 0
               THEN /\ Len(list) = 1
                    /\ list[1].tag = "placeholder"
                    /\ list[1].text = text
                    /\ DOMAIN list[1].buttons = {}
               ELSE /\ Len(list) = Len(given)
                    /\ \A i \in 1..Len(list) :
                           list[i].tag = "row" /\ list[i].rec = given[i]

\* A filter that no tool of a loaded list satisfies shows the placeholder.
C24_Witness ==
    /\ last.fn = "filterTools"
    /\ Len(tools) = 2
    /\ Satisfying("tools") = <<>>
    /\ dom.toolList = <<Placeholder("No tools found")>>

---------------------------------------------------------------------------
(* Properties of the identifiers and of the commits.                       *)

\* C25: no two records of the list of one kind have the same id.
C25_UniqueIds ==
    \A k \in ListKinds :
        \A i, j \in 1..Len(Store(k)) :
            Store(k)[i].id = Store(k)[j].id => i = j

\* C29: at most one commit request of the agent form is in flight.
C29_OneCommitInFlight == Cardinality(InFlight("saveAgent")) <= 1

\* C28: when a commit succeeds while the form shows another session than the
\* one that issued it, the modal stays as it is.
C28_CommitLeavesNewerSession ==
    [][\A i \in InFlight("saveAgent") :
          (/\ last'.fn = "saveAgent"
           /\ ~last'.threw
           /\ Len(pending') = Len(pending)
           /\ SubSeq(pending', 1, Len(pending) - 1) = Remove(pending, i)
           /\ agentModal.display = "block"
           /\ <<pending[i].arg.how, pending[i].arg.id>> # <<shown.how, shown.id>>)
          => agentModal' = agentModal]_vars

---------------------------------------------------------------------------
(* The toast and its timers: requests fail one after the other, each       *)
(* failure shows a toast, and the timers run out in the order they were    *)
(* set (every call of showToast uses the same duration).                   *)

ToastNext == ApiNext \/ toastTimeout

ToastSpec == ApiInit /\ [][ToastNext]_vars

---------------------------------------------------------------------------
(* Properties of the system configuration, of the toast and of the names   *)
(* shown in the workflow list.                                             *)

\* C31: whenever saveGeneralSettings, deleteLlm or deleteDatabase runs, the
\* system configuration held by the page is a loaded one, not null.
C31_ConfigLoadedWhenUsed ==
    [][last'.fn \in {"saveGeneralSettings_call", "deleteLlm", "deleteDatabase"}
          => systemConfig # NullConfig]_vars

\* C32: the timer of an earlier toast does not hide a toast shown after it:
\* when a timer runs out while a later one is still set, the toast stays
\* displayed.
C32_TimerHidesOwnToastOnly ==
    [][(last'.fn = "toastTimeout" /\ timers > 1) => toast'.display = toast.display]_vars

\* The names that may stand for agent id `id`: the names the agent store
\* holds for it, or 'Agent <id>' when the store holds none.
NamesFor(id) ==
    IF \E i \in 1..Len(agents) : agents[i].id = id
    THEN {agents[i].name : i \in {j \in 1..Len(agents) : agents[j].id = id}}
    ELSE {"Agent " \o id}

\* C33: once the loads of the agents and of the workflows have all resolved,
\* every row of the workflow list shows, for each agent id of its workflow,
\* the name the agent store holds for it, and 'Agent <id>' only for an id
\* the store does not hold.
C33_WorkflowAgentNames ==
    ({"agents", "workflows"} \subseteq active
        /\ InFlight("loadAgents") = {} /\ InFlight("loadWorkflows") = {})
    => \A r \in 1..Len(dom.workflowList) :
          LET row == dom.workflowList[r]
              ids == row.rec.agents
          IN (row.tag = "row" /\ Len(ids) > 0) =>
                \E names \in [1..Len(ids) -> UNION {NamesFor(ids[i]) : i \in 1..Len(ids)}] :
                    /\ \A i \in 1..Len(ids) : names[i] \in NamesFor(ids[i])
                    /\ row.extra = Join(names)

---------------------------------------------------------------------------
(* Properties of the agent form.                                           *)

\* C34: loadToolsForAgent and loadLlmModels, resolved with a success or with
\* a failure, leave the agents, the tools and the system configuration held
\* by the page as they are.
C34_ReferenceLoadsKeepStores ==
    [][last'.fn \in {"loadToolsForAgent", "loadLlmModels"}
          => UNCHANGED <<agents, tools, systemConfig>>]_vars

\* loadLlmModels has fetched a configuration and filled the options of the
\* form with it, and the configuration held by the page is still null.
C34_Witness ==
    /\ last.fn = "loadLlmModels"
    /\ ~last.threw
    /\ form.llmOptions = <<"gpt4", "claude">>
    /\ systemConfig = NullConfig

\* C35: editAgent sends GET /agents/{id} and fills nothing before the answer;
\* the form shows the name of the record fetched; and when the fetch fails
\* the form, the editing id, the modal and the session are unchanged and the
\* error toast is shown.
C35_EditReadsFromServer ==
    [][/\ last'.fn = "editAgent_call" =>
            /\ \E id \in RowIds :
                   pending' = Append(pending, Request("editAgent", "GET",
                                                      "/agents/" \o id, NoBody, id))
            /\ UNCHANGED <<form, editingAgentId, agentModal>>
       /\ (last'.fn = "editAgent" /\ ~last'.threw) =>
            form'.name = shown'.record.name
       /\ (last'.fn = "editAgent" /\ last'.threw) =>
            /\ UNCHANGED <<form, editingAgentId, agentModal, shown>>
            /\ toast' = [message |-> "Error loading agent details",
                         type |-> "error", display |-> "block"]]_vars

\* The fetch of an edit has failed: the error toast is shown, the modal is
\* hidden and no agent is being edited.
C35_Witness ==
    /\ last.fn = "editAgent"
    /\ last.threw
    /\ toast.message = "Error loading agent details"
    /\ agentModal.display = "none"
    /\ editingAgentId = Null

\* C36: a commit of an edit session in which the administrator changed
\* nothing, for a record whose sub-agent ids are all options of the form,
\* sends the sub-agent ids in the order of the record fetched.
C36_SubAgentOrderKept ==
    [][(/\ last'.fn = "saveAgent_call"
        /\ shown.how = "edit"
        /\ ~shown.edited
        /\ shown.record.sub_agents.some
        /\ \A j \in 1..Len(shown.record.sub_agents.v) :
               \E o \in 1..Len(form.subAgents) :
                   form.subAgents[o].value = shown.record.sub_agents.v[j])
       => pending'[Len(pending')].body.sub_agents.v = shown.record.sub_agents.v]_vars

\* C37: a commit sends no timeout when the timeout field is blank and the
\* integer the field denotes otherwise, 0 for a field holding 0; and an edit
\* shows the timeout of the record fetched in the field, 0 as 0.
C37_TimeoutRoundTrip ==
    [][/\ last'.fn = "saveAgent_call" =>
            LET sent == pending'[Len(pending')].body.timeout
            IN CASE form.timeout = <<>> -> sent = None
                 [] form.timeout = <<"0">> -> sent = Some(0)
                 [] form.timeout = <<"3", "0">> -> sent = Some(30)
                 [] form.timeout = <<"4", "5">> -> sent = Some(45)
                 [] OTHER -> TRUE
       /\ (last'.fn = "editAgent" /\ ~last'.threw /\ shown'.record.timeout.some) =>
            CASE shown'.record.timeout.v = 0 -> form'.timeout = <<"0">>
              [] shown'.record.timeout.v = 30 -> form'.timeout = <<"3", "0">>
              [] OTHER -> TRUE]_vars

---------------------------------------------------------------------------
(* Properties of apiRequest as a whole.                                    *)

\* C38: a call of apiRequest sends one request; when the request resolves
\* it is gone and none is sent in its place, and the caller gets an error
\* after a transport error or a non-success status, and the parsed body
\* after a success of a GET, POST or PUT.
C38_OneRequestOneOutcome ==
    [][/\ last'.fn = "apiRequest_call" =>
            /\ Len(pending') = Len(pending) + 1
            /\ SubSeq(pending', 1, Len(pending)) = pending
            /\ pending'[Len(pending')].fn = "apiRequest"
       /\ last'.fn = "apiRequest" =>
            /\ \E i \in InFlight("apiRequest") : pending' = Remove(pending, i)
            /\ (last'.response.kind = "network" \/ ~last'.response.ok)
                  => /\ last'.result.threw
                     /\ DOMAIN last'.result = {"threw", "message"}
            /\ (/\ last'.response.kind = "http"
                /\ last'.response.ok
                /\ last'.method # "DELETE"
                /\ "value" \in DOMAIN last'.response.body)
                  => last'.result = Returned(last'.response.body.value)]_vars

\* A request failed for lack of a connection: the caller got the error and
\* no request is in flight.
C38_Witness ==
    /\ last.fn = "apiRequest"
    /\ last.response = NetworkError
    /\ last.result.threw
    /\ InFlight("apiRequest") = {}

====
